---------------------------- MODULE Spec2Model ----------------------------
(***************************************************************************)
(* Model of the segmentation / embedding-index / change-detection pipeline *)
(* of scripts/rag:                                                         *)
(*   batch_indexer.py   - the batched embedding indexer (SpecIndexer)      *)
(*   diff_analysis.py   - the change-detection run       (SpecDetect)      *)
(*   guideline_ingester.py - the Segmenter               (SpecIngest)      *)
(*   batch_mcq_generator.py - generate_mcqs_for_topic    (SpecMcq)         *)
(* SpecStages runs any one of the three stages; SpecDetectFair is the      *)
(* change-detection run with its steps taken one after the other.          *)
(*                                                                         *)
(* Representation choices                                                  *)
(*   - a Python str is a sequence of one-character strings, so that `in`,  *)
(*     lower() and + are computed, not assumed;                            *)
(*   - an embedding vector of the indexer is opaque: the text it embeds    *)
(*     and its dimension; a vector of the detection run is its dimension   *)
(*     and its leading components, all further components being 0;         *)
(*   - float arithmetic is exact (scores are compared as rationals), nan   *)
(*     is kept as a value of its own;                                      *)
(*   - an exception that leaves main() ends the run in pc "crashed".       *)
(***************************************************************************)
EXTENDS Integers, Sequences, FiniteSets, TLC

VARIABLES
    \* ---- batch_indexer.py ----
    chunks_file,      \* CHUNKS_FILE on disk
    idx_pc,           \* position of batch_indexer.main
    chunks,           \* main: chunks
    i,                \* main: loop variable i (0-based offset of the batch)
    plan,             \* outcomes the external embed service gives to the
                      \* successive requests of the current call
    attempt,          \* generate_batch_embeddings: attempt
    requests,         \* external requests issued by the current call
    delays,           \* time.sleep arguments of the current call, in order
    call_result,      \* "none" | "running" | "returned" | "raised"
    raised_error,     \* what the current call raised: "none" | "external"
                      \* (raise e) | "Failed after retries"
    service_dim,      \* length of the vectors of the service's last answer
    embeddings_data,  \* main: embeddings_data = {ids, embeddings}
    mapping,          \* main: mapping
    batch_result,     \* per processed batch: "ok" | "failed"
    sleeps,           \* main: the offsets i of the batches after which
                      \* time.sleep(RATE_LIMIT_DELAY) ran
    files,            \* EMBEDDINGS_FILE, MAPPING_FILE, METADATA_FILE
    \* ---- diff_analysis.py ----
    guideline_file,   \* GUIDELINE_CHUNKS on disk
    baseline,         \* TEXTBOOK_EMBEDDINGS + chunk_mapping.json on disk
    det_pc,           \* position of diff_analysis.main
    g_chunks,         \* main: chunks
    ci,               \* main: 1-based index of the chunk being analysed
    VECTOR_DB,        \* module global VECTOR_DB
    db_loads,         \* how many times load_vector_db returned an Index
    query_vec,        \* find_relevant_textbook_chunks: query_vec
    textbook_context, \* analyze_chunk: textbook_context
    result,           \* main: result (the verdict analyze_chunk returned)
    trends,           \* main: trends
    origin,           \* per trend: the guideline chunk it came from and
                      \* what the oracle had answered for that chunk
    response,         \* analyze_chunk: what generate_content did
    top_matches,      \* find_relevant_textbook_chunks: the entries of
                      \* top_indices, with their chunk id and score
    embed_requests,   \* external embed requests issued for this chunk
    embed_failed,     \* get_embedding took its except branch for this chunk
    oracle_requests,  \* external oracle requests issued for this chunk
    prompt,           \* the two texts DIFF_PROMPT.format put into the prompt
                      \* of that request
    error,            \* the exception that ended the run, if any
    report,           \* OUTPUT_TRENDS on disk
    \* ---- guideline_ingester.py ----
    data_dir,         \* DATA_DIR on disk: the PDF files, in glob order
    ing_pc,           \* position of process_directory
    fi,               \* 1-based index of the PDF file being processed
    seg_text,         \* chunk_by_headers: text (cleaned)
    seg_source,       \* chunk_by_headers: source
    seg_pattern,      \* 1-based index in patterns of the loop variable
    seg_chunks,       \* chunk_by_headers: chunks
    all_chunks,       \* process_directory: all_chunks
    output_chunks,    \* OUTPUT_CHUNKS on disk
    \* ---- batch_mcq_generator.py ----
    mcq_pc,           \* position of generate_mcqs_for_topic
    mcq_count,        \* generate_mcqs_for_topic: mcq_count
    relevant_chunks,  \* what search_relevant_chunks returned
    remaining,        \* generate_mcqs_for_topic: remaining
    current_batch,    \* generate_mcqs_for_topic: current_batch
    all_mcqs,         \* generate_mcqs_for_topic: all_mcqs
    gen_response      \* what the last generation call did

idx_vars == <<chunks_file, idx_pc, chunks, i, plan, attempt, requests, delays,
              call_result, raised_error, service_dim, embeddings_data,
              mapping, batch_result, sleeps, files>>

det_vars == <<guideline_file, baseline, det_pc, g_chunks, ci, VECTOR_DB,
              db_loads,
              query_vec, textbook_context, result, trends, origin,
              response, top_matches, embed_requests, embed_failed,
              oracle_requests, prompt, error, report>>

ing_vars == <<data_dir, ing_pc, fi, seg_text, seg_source, seg_pattern,
              seg_chunks,
              all_chunks, output_chunks>>

mcq_vars == <<mcq_pc, mcq_count, relevant_chunks, remaining, current_batch,
              all_mcqs, gen_response>>

vars == <<idx_vars, det_vars, ing_vars, mcq_vars>>

Min(a, b) == IF a < b THEN a ELSE b

RECURSIVE Pow2(_)
Pow2(n) == IF n = 0 THEN 1 ELSE 2 * Pow2(n - 1)

\* a file that does not exist, and a file holding `content`
NoFile == [exists |-> FALSE]
FileOf(content) == [exists |-> TRUE, content |-> content]

(***************************************************************************)
(*                          batch_indexer.py                               *)
(***************************************************************************)

\* ------------------------------------------------------------- bounds
MaxFullBatches == 2
MaxFails == 4
TailSizes == {0, 1}

\* ---------------------------------------------------------- constants
BATCH_SIZE == 100
retries == 3
EMBEDDING_DIM == 768

\* chunk k of the chunk file
ChunkAt(k) ==
    [id |-> <<"chunk", k>>, text |-> <<"text", k>>,
     metadata |-> [source |-> "textbook"]]

ChunkFiles ==
    { FileOf([k \in 1..(b * BATCH_SIZE + t) |-> ChunkAt(k)]) :
        b \in 0..MaxFullBatches, t \in TailSizes }

\* the vector lengths the embed service may answer a request with
ServiceDims == {EMBEDDING_DIM, EMBEDDING_DIM \div 2}

\* what the embed service returns for one text: e.values
EmbeddingOf(text, dim) == [of |-> text, dim |-> dim]

\* result.embeddings of one successful request: one vector per text
embed_content(texts, dim) == [j \in 1..Len(texts) |-> EmbeddingOf(texts[j], dim)]

\* the failure classes the except branch tells apart
RATE_LIMITED == "rate"
OTHER_ERROR == "other"
SUCCESS == "ok"

RECURSIVE SeqsUpTo(_, _)
SeqsUpTo(S, n) ==
    IF n = 0 THEN {<<>>}
    ELSE LET shorter == SeqsUpTo(S, n - 1)
         IN  shorter \cup { Append(s, x) : s \in { t \in shorter : Len(t) = n - 1 }, x \in S }

\* the service fails the first Len(p) requests as p says and succeeds after
Plans == SeqsUpTo({RATE_LIMITED, OTHER_ERROR}, MaxFails)

Outcome == IF attempt + 1 <= Len(plan) THEN plan[attempt + 1] ELSE SUCCESS

\* chunks[i:i + BATCH_SIZE]
Batch == SubSeq(chunks, i + 1, Min(i + BATCH_SIZE, Len(chunks)))

\* for attempt in range(retries)
LoopContinues_offByOne(a) == a <= retries
LoopContinues(a) == a < retries

\* delay = (2 ** (attempt + 1)) * 1
BackoffDelay_linear(a) == 2 * (a + 1)
BackoffDelay(a) == Pow2(a + 1) * 1

\* time.sleep(1) of the branch for the other errors
OtherErrorDelay_backoff(a) == Pow2(a)
OtherErrorDelay(a) == 1

\* the store loop of main: for j, chunk in enumerate(batch)
StoreResults_firstVector(ed, batch, batch_embeddings) ==
    [ids        |-> ed.ids \o [j \in 1..Len(batch) |-> batch[j].id],
     embeddings |-> ed.embeddings \o [j \in 1..Len(batch) |-> batch_embeddings[1]]]
StoreResults(ed, batch, batch_embeddings) ==
    [ids        |-> ed.ids \o [j \in 1..Len(batch) |-> batch[j].id],
     embeddings |-> ed.embeddings \o [j \in 1..Len(batch) |-> batch_embeddings[j]]]

StoreMapping(mp, batch, offset) ==
    mp \o [j \in 1..Len(batch) |->
             [id |-> batch[j].id, text |-> batch[j].text,
              metadata |-> batch[j].metadata,
              embeddingIndex |-> offset + (j - 1)]]

\* main without the test of lines 89-92: a missing file reads as no chunks
IdxStart_noExit ==
    /\ UNCHANGED <<det_vars, ing_vars, mcq_vars>>
    /\ idx_pc = "start"
    /\ idx_pc' = "loop"
    /\ chunks' = IF chunks_file.exists THEN chunks_file.content ELSE <<>>
    /\ UNCHANGED <<chunks_file, i, plan, attempt, requests, delays, call_result,
                   raised_error, service_dim, embeddings_data, mapping,
                   batch_result, sleeps, files>>

\* main, lines 88-110: the chunk file check and load_chunks
IdxStart ==
    /\ UNCHANGED <<det_vars, ing_vars, mcq_vars>>
    /\ idx_pc = "start"
    /\ IF ~chunks_file.exists
       THEN /\ idx_pc' = "exit1"
            /\ UNCHANGED chunks
       ELSE /\ idx_pc' = "loop"
            /\ chunks' = chunks_file.content
    /\ UNCHANGED <<chunks_file, i, plan, attempt, requests, delays, call_result,
                   raised_error, service_dim, embeddings_data, mapping,
                   batch_result, sleeps, files>>

\* main, lines 112-123: the next batch is cut and generate_batch_embeddings
\* is entered; the service's behaviour during this call is fixed here
BeginBatch ==
    /\ UNCHANGED <<det_vars, ing_vars, mcq_vars>>
    /\ idx_pc = "loop"
    /\ i < Len(chunks)
    /\ \E p \in Plans : plan' = p
    /\ raised_error' = "none"
    /\ attempt' = 0
    /\ requests' = 0
    /\ delays' = <<>>
    /\ call_result' = "running"
    /\ idx_pc' = "call"
    /\ UNCHANGED <<chunks_file, chunks, i, service_dim, embeddings_data,
                   mapping, batch_result, sleeps, files>>

\* the end of one loop iteration without the test of line 151
FinishBatch_alwaysSleeps(status) ==
    /\ batch_result' = Append(batch_result, status)
    /\ sleeps' = Append(sleeps, i)
    /\ i' = i + BATCH_SIZE
    /\ idx_pc' = "loop"

\* main, lines 147-152: the end of one loop iteration
FinishBatch(status) ==
    /\ batch_result' = Append(batch_result, status)
    /\ sleeps' = IF i + BATCH_SIZE < Len(chunks) THEN Append(sleeps, i) ELSE sleeps
    /\ i' = i + BATCH_SIZE
    /\ idx_pc' = "loop"

\* main, lines 147-148: except Exception as e: print
OnBatchError_break ==
    /\ batch_result' = Append(batch_result, "failed")
    /\ UNCHANGED sleeps
    /\ i' = Len(chunks)
    /\ idx_pc' = "loop"
OnBatchError == FinishBatch("failed")

\* one request that succeeds: lines 64-70, then main lines 126-152
AttemptOk ==
    /\ UNCHANGED <<det_vars, ing_vars, mcq_vars>>
    /\ idx_pc = "call"
    /\ LoopContinues(attempt)
    /\ Outcome = SUCCESS
    /\ requests' = requests + 1
    /\ call_result' = "returned"
    /\ \E d \in ServiceDims :
         LET batch == Batch
             batch_embeddings ==
                 embed_content([j \in 1..Len(batch) |-> batch[j].text], d)
         IN  /\ service_dim' = d
             /\ embeddings_data' = StoreResults(embeddings_data, batch, batch_embeddings)
             /\ mapping' = StoreMapping(mapping, batch, i)
    /\ FinishBatch("ok")
    /\ UNCHANGED <<chunks_file, chunks, plan, attempt, delays, raised_error, files>>

\* a rate-limit failure after which main goes on to the next batch at once
AttemptRateLimited_movesOn ==
    /\ UNCHANGED <<det_vars, ing_vars, mcq_vars>>
    /\ idx_pc = "call"
    /\ LoopContinues(attempt)
    /\ Outcome = RATE_LIMITED
    /\ requests' = requests + 1
    /\ delays' = Append(delays, BackoffDelay(attempt))
    /\ attempt' = attempt + 1
    /\ call_result' = "raised"
    /\ raised_error' = "Failed after retries"
    /\ OnBatchError
    /\ UNCHANGED <<chunks_file, chunks, plan, service_dim, embeddings_data,
                   mapping, files>>

\* one request that fails with a rate-limit error: lines 71-76, and line 82
\* when the loop is exhausted
AttemptRateLimited ==
    /\ UNCHANGED <<det_vars, ing_vars, mcq_vars>>
    /\ idx_pc = "call"
    /\ LoopContinues(attempt)
    /\ Outcome = RATE_LIMITED
    /\ requests' = requests + 1
    /\ delays' = Append(delays, BackoffDelay(attempt))
    /\ attempt' = attempt + 1
    /\ IF LoopContinues(attempt + 1)
       THEN UNCHANGED <<call_result, raised_error, idx_pc, i, batch_result,
                         sleeps>>
       ELSE /\ call_result' = "raised"
            /\ raised_error' = "Failed after retries"
            /\ OnBatchError
    /\ UNCHANGED <<chunks_file, chunks, plan, service_dim, embeddings_data,
                   mapping, files>>

\* one request that fails with another error: lines 77-81
AttemptOtherError ==
    /\ UNCHANGED <<det_vars, ing_vars, mcq_vars>>
    /\ idx_pc = "call"
    /\ LoopContinues(attempt)
    /\ Outcome = OTHER_ERROR
    /\ requests' = requests + 1
    /\ IF attempt = retries - 1
       THEN /\ call_result' = "raised"
            /\ raised_error' = "external"
            /\ OnBatchError
            /\ UNCHANGED <<attempt, delays>>
       ELSE /\ delays' = Append(delays, OtherErrorDelay(attempt))
            /\ attempt' = attempt + 1
            /\ IF LoopContinues(attempt + 1)
               THEN UNCHANGED <<call_result, raised_error, idx_pc, i, batch_result,
                         sleeps>>
               ELSE /\ call_result' = "raised"
                    /\ raised_error' = "Failed after retries"
                    /\ OnBatchError
    /\ UNCHANGED <<chunks_file, chunks, plan, service_dim, embeddings_data,
                   mapping, files>>

\* main, lines 157-178: the three files are written
Save ==
    /\ UNCHANGED <<det_vars, ing_vars, mcq_vars>>
    /\ idx_pc = "loop"
    /\ i >= Len(chunks)
    /\ files' = [embeddings |-> FileOf(embeddings_data),
                 mapping    |-> FileOf(mapping),
                 metadata   |-> FileOf([totalChunks |-> Len(embeddings_data.ids),
                                        embeddingDimension |->
                                            IF Len(embeddings_data.embeddings) > 0
                                            THEN embeddings_data.embeddings[1].dim
                                            ELSE EMBEDDING_DIM])]
    /\ idx_pc' = "done"
    /\ UNCHANGED <<chunks_file, chunks, i, plan, attempt, requests, delays,
                   call_result, raised_error, service_dim, embeddings_data,
                   mapping, batch_result, sleeps>>

IdxNext ==
    \/ IdxStart
    \/ BeginBatch
    \/ AttemptOk
    \/ AttemptRateLimited
    \/ AttemptOtherError
    \/ Save


(***************************************************************************)
(*                           diff_analysis.py                              *)
(***************************************************************************)

\* ------------------------------------------------------------- bounds
MaxGuidelineChunks == 2
MaxBaseline == 3

\* ------------------------------------------------------------ strings
UNAVAILABLE_MSG == <<"R","e","f","e","r","e","n","c","e"," ","t","e","x","t","b","o","o","k"," ","c","o","n","t","e","n","t"," ","u","n","a","v","a","i","l","a","b","l","e",".">>
kw_unavailable == <<"u","n","a","v","a","i","l","a","b","l","e">>
MATCH_HEAD == <<"-","-","-"," ","M","A","T","C","H"," ","(","S","c","o","r","e",":"," ">>
MATCH_TAIL == <<")"," ","-","-","-","\n">>
JOIN_SEP == <<"\n","\n">>
SPACE == <<" ">>
topic_copd == <<"C","O","P","D"," ","G","O","L","D"," ","s","t","a","g","i","n","g"," ","u","p","d","a","t","e">>
nc_cutoff == <<"F","E","V","1"," ","c","u","t","o","f","f"," ","i","s"," ","6","0">>
nc_inhaler == <<"d","u","a","l"," ","i","n","h","a","l","e","r"," ","f","i","r","s","t">>
old_cutoff == <<"F","E","V","1"," ","c","u","t","o","f","f"," ","i","s"," ","5","0">>
reason_text == <<"c","h","a","n","g","e","d"," ","c","u","t","o","f","f">>
text_staging == <<"C","O","P","D"," ","s","t","a","g","i","n","g"," ","u","s","e","s"," ","F","E","V","1">>
text_scarce == <<"s","p","i","r","o","m","e","t","r","y"," ","u","n","a","v","a","i","l","a","b","l","e">>
src_gold == <<"g","o","l","d",".","p","d","f">>
src_gina == <<"g","i","n","a",".","p","d","f">>
guideline_text == <<"C","O","P","D"," ","s","t","a","g","e"," ","c","u","t","o","f","f"," ","6","0">>
cat_TB == <<"T","B">>
cat_Asthma == <<"A","s","t","h","m","a">>
cat_ARDS == <<"A","R","D","S">>
cat_COPD == <<"C","O","P","D">>
cat_Pneumonia == <<"P","n","e","u","m","o","n","i","a">>
cat_Other == <<"O","t","h","e","r">>
TB_KEYWORDS ==
    <<<<"t","u","b","e","r","c","u","l","o","s","i","s">>,
      <<" ","t","b"," ">>,
      <<"d","r","-","t","b">>,
      <<"m","d","r","-","t","b">>,
      <<"x","d","r","-","t","b">>,
      <<"n","t","e","p">>,
      <<"r","n","t","c","p">>,
      <<"d","o","t","s">>>>
ASTHMA_KEYWORDS ==
    <<<<"a","s","t","h","m","a">>,
      <<"g","i","n","a">>,
      <<"b","r","o","n","c","h","o","d","i","l","a","t","o","r">>,
      <<"i","c","s","-","f","o","r","m","o","t","e","r","o","l">>,
      <<"i","n","h","a","l","e","r">>>>
ARDS_KEYWORDS ==
    <<<<"a","r","d","s">>,
      <<"a","c","u","t","e"," ","r","e","s","p","i","r","a","t","o","r","y"," ","d","i","s","t","r","e","s","s">>,
      <<"v","e","n","t","i","l","a","t","i","o","n">>,
      <<"p","l","a","t","e","a","u"," ","p","r","e","s","s","u","r","e">>>>
COPD_KEYWORDS ==
    <<<<"c","o","p","d">>,
      <<"g","o","l","d"," ","r","e","p","o","r","t">>,
      <<"e","m","p","h","y","s","e","m","a">>,
      <<"c","h","r","o","n","i","c"," ","o","b","s","t","r","u","c","t","i","v","e">>>>
PNEUMONIA_KEYWORDS ==
    <<<<"p","n","e","u","m","o","n","i","a">>,
      <<"c","a","p"," ">>,
      <<"c","o","m","m","u","n","i","t","y","-","a","c","q","u","i","r","e","d">>>>
UPPER == <<"A","B","C","D","E","F","G","H","I","J","K","L","M","N","O","P","Q","R","S","T","U","V","W","X","Y","Z">>
LOWER == <<"a","b","c","d","e","f","g","h","i","j","k","l","m","n","o","p","q","r","s","t","u","v","w","x","y","z">>

\* sub in s
Contains(s, sub) ==
    \E k \in 1..(Len(s) - Len(sub) + 1) :
        \A j \in 1..Len(sub) : s[k + j - 1] = sub[j]

LowerChar(c) ==
    IF \E k \in DOMAIN UPPER : UPPER[k] = c
    THEN LOWER[CHOOSE k \in DOMAIN UPPER : UPPER[k] = c]
    ELSE c

\* s.lower()
Lower(s) == [k \in 1..Len(s) |-> LowerChar(s[k])]

\* sep.join(parts)
RECURSIVE Join(_, _)
Join(sep, parts) ==
    IF Len(parts) = 0 THEN <<>>
    ELSE IF Len(parts) = 1 THEN parts[1]
    ELSE parts[1] \o sep \o Join(sep, Tail(parts))

\* s.replace(pat, '')
RECURSIVE ReplaceAll(_, _)
ReplaceAll(s, pat) ==
    IF Len(s) < Len(pat) \/ Len(s) = 0 THEN s
    ELSE IF SubSeq(s, 1, Len(pat)) = pat
         THEN ReplaceAll(SubSeq(s, Len(pat) + 1, Len(s)), pat)
         ELSE <<s[1]>> \o ReplaceAll(Tail(s), pat)

\* --------------------------------------------------- Python / JSON values
JNull == [t |-> "NoneType"]
JBool(b) == [t |-> "bool", b |-> b]
JNum(n) == [t |-> "int", n |-> n]
JStr(str) == [t |-> "str", s |-> str]
JList(a) == [t |-> "list", a |-> a]
JDict(o) == [t |-> "dict", o |-> o]

\* bool(v)
Truthy(v) ==
    CASE v.t = "NoneType" -> FALSE
      [] v.t = "bool" -> v.b
      [] v.t = "int" -> v.n # 0
      [] v.t = "str" -> Len(v.s) > 0
      [] v.t = "list" -> Len(v.a) > 0
      [] v.t = "dict" -> DOMAIN v.o # {}

\* d.get(key, default)
Get(d, key, default) == IF key \in DOMAIN d.o THEN d.o[key] ELSE default

\* {"has_shift": False}
NO_SHIFT == JDict([has_shift |-> JBool(FALSE)])

\* ------------------------------------- the oracle's raw response text
\* The text is a sequence of tokens: a code-fence marker (three backticks),
\* the word json, a
\* line break, a JSON document (kept as the value it denotes) or prose.
Tok(kind, v) == [k |-> kind, v |-> v]
FENCE == Tok("fence", JNull)
WORD_JSON == Tok("json", JNull)
NL == Tok("\n", JNull)
PROSE == Tok("prose", JNull)
Doc(v) == Tok("document", v)

IsSpace(tok) == tok.k = "\n"

\* text.strip()
RECURSIVE LStrip(_)
LStrip(text) ==
    IF Len(text) > 0 /\ IsSpace(text[1]) THEN LStrip(Tail(text)) ELSE text
RECURSIVE RStrip(_)
RStrip(text) ==
    IF Len(text) > 0 /\ IsSpace(text[Len(text)])
    THEN RStrip(SubSeq(text, 1, Len(text) - 1)) ELSE text
Strip(text) == RStrip(LStrip(text))

\* json.loads(text): one document, white space around it allowed
json_loads(text) ==
    LET body == SelectSeq(text, LAMBDA tok : ~IsSpace(tok))
    IN  IF Len(body) = 1 /\ body[1].k = "document"
        THEN [raised |-> FALSE, v |-> body[1].v]
        ELSE [raised |-> TRUE, v |-> JNull]

Plain(v) == <<Doc(v)>>
Fenced(v) == <<FENCE, WORD_JSON, NL, Doc(v), NL, FENCE>>

\* a verdict that reports a shift
Shift(new_concept) ==
    JDict([has_shift |-> JBool(TRUE),
           topic |-> JStr(topic_copd),
           old_concept |-> JStr(old_cutoff),
           new_concept |-> JStr(new_concept),
           exam_relevance_score |-> JNum(8),
           reason |-> JStr(reason_text)])

\* the same without its relevance score
ShiftNoScore ==
    JDict([has_shift |-> JBool(TRUE),
           topic |-> JStr(topic_copd),
           new_concept |-> JStr(nc_cutoff)])

\* a verdict on a topic outside the five keyword sets
ShiftOther ==
    JDict([has_shift |-> JBool(TRUE),
           \* Bronchiectasis airway clearance
           topic |-> JStr(<<"B","r","o","n","c","h","i","e","c","t","a","s","i","s"," ","a","i","r","w","a","y"," ","c","l","e","a","r","a","n","c","e">>),
           old_concept |-> JStr(old_cutoff),
           new_concept |-> JStr(nc_cutoff),
           exam_relevance_score |-> JNum(8),
           reason |-> JStr(reason_text)])

\* a verdict whose score is outside 1..10 and which has keys of its own
\* named source_guideline (oracle.pdf) and category
ShiftUnasked ==
    JDict([has_shift |-> JBool(TRUE),
           topic |-> JStr(topic_copd),
           old_concept |-> JStr(old_cutoff),
           new_concept |-> JStr(nc_cutoff),
           exam_relevance_score |-> JNum(11),
           reason |-> JStr(reason_text),
           source_guideline |-> JStr(<<"o","r","a","c","l","e",".","p","d","f">>),
           category |-> JStr(cat_TB)])

\* what client.models.generate_content does: it raises, or returns a text
NoResponse == [kind |-> "none", text |-> <<>>]
CallError == [kind |-> "error", text |-> <<>>]
Text(text) == [kind |-> "text", text |-> text]

OracleOutcomes ==
    { CallError,
      Text(Plain(NO_SHIFT)), Text(Fenced(NO_SHIFT)),
      Text(<<PROSE>>), Text(<<PROSE, NL, Doc(NO_SHIFT)>>),
      Text(Plain(Shift(nc_cutoff))), Text(Fenced(Shift(nc_cutoff))),
      Text(Plain(Shift(nc_inhaler))),
      Text(Plain(ShiftOther)),
      Text(Plain(ShiftUnasked)),
      Text(Plain(ShiftNoScore)),
      Text(Plain(JList(<<>>))) }

\* ------------------------------------------------------------ vectors
Vec(d, lead) == [dim |-> d, v |-> lead]
NoVector == Vec(0, <<>>)

\* [0.0] * 768
ZERO_VECTOR == Vec(EMBEDDING_DIM, <<0, 0>>)

RECURSIVE SumSeq(_)
SumSeq(xs) == IF Len(xs) = 0 THEN 0 ELSE xs[1] + SumSeq(Tail(xs))

Dot(a, b) == SumSeq([k \in 1..Len(a.v) |-> a.v[k] * b.v[k]])
NormSq(a) == Dot(a, a)
Sgn(x) == IF x > 0 THEN 1 ELSE IF x < 0 THEN -1 ELSE 0

\* the vectors stored at the successive positions of a baseline index
BASE_VECTORS == << <<1, 0>>, <<0, 1>>, <<1, 1>>, <<2, 0>> >>
VecAt(k) == Vec(EMBEDDING_DIM, BASE_VECTORS[((k - 1) % Len(BASE_VECTORS)) + 1])

\* s[:n]
Slice_whole(s, n) == s
Slice(s, n) == SubSeq(s, 1, Min(n, Len(s)))

\* analyze_chunk, lines 137-138: the characters of each text that go into
\* the prompt
PROMPT_CHARS == 4000

\* a text of one character more
LongText == [k \in 1..(PROMPT_CHARS + 1) |-> "x"]

NoPrompt == [guideline_text |-> <<>>, textbook_text |-> <<>>]

\* a baseline of n chunks as batch_indexer.py persists it; the text of
\* chunk u (if u > 0) holds the word "unavailable"
BaselineOf(n, u) ==
    [embeddings |-> FileOf([ids |-> [k \in 1..n |-> <<"chunk", k>>],
                            embeddings |-> [k \in 1..n |-> VecAt(k)]]),
     mapping |-> FileOf([k \in 1..n |->
                    [id |-> <<"chunk", k>>,
                     text |-> IF k = u THEN text_scarce ELSE text_staging]])]

Baselines ==
    { BaselineOf(n, u) : n \in 0..MaxBaseline, u \in 0..MaxBaseline }
    \cup { [embeddings |-> NoFile, mapping |-> NoFile],
           [embeddings |-> BaselineOf(1, 0).embeddings, mapping |-> NoFile] }
    \* one chunk whose text is longer than the prompt takes
    \cup { [BaselineOf(1, 0) EXCEPT !.mapping.content[1].text = LongText] }

\* guideline chunk k as guideline_ingester.py persists it
SourceAt(k) == IF k % 2 = 1 THEN src_gold ELSE src_gina
GuidelineChunkAt(k) ==
    [id |-> <<"guide", k>>, text |-> guideline_text,
     metadata |-> [source |-> SourceAt(k), type |-> "guideline",
                   topic |-> "Introduction"]]

GuidelineFiles ==
    {NoFile} \cup
    { FileOf([k \in 1..n |-> GuidelineChunkAt(k)]) : n \in 0..MaxGuidelineChunks }
    \* one chunk whose text is longer than the prompt takes
    \cup { FileOf(<< [GuidelineChunkAt(1) EXCEPT !.text = LongText] >>) }
    \* two chunks of one document
    \cup { FileOf([k \in 1..2 |->
                     [GuidelineChunkAt(k) EXCEPT !.metadata.source = src_gold]]) }

\* ----------------------------------------------------- load_vector_db
None == [loaded |-> FALSE, ids |-> <<>>, embeddings |-> <<>>, texts |-> <<>>]

\* the dict comprehension over mapping: a later entry of an id wins
TextMap(mp) ==
    [id \in { mp[k].id : k \in 1..Len(mp) } |->
        mp[CHOOSE k \in 1..Len(mp) :
              /\ mp[k].id = id
              /\ \A l \in 1..Len(mp) : mp[l].id = id => l <= k].text]

load_vector_db ==
    IF ~baseline.embeddings.exists THEN None
    ELSE IF ~baseline.mapping.exists THEN None
    ELSE [loaded |-> TRUE,
          ids |-> baseline.embeddings.content.ids,
          embeddings |-> baseline.embeddings.content.embeddings,
          texts |-> TextMap(baseline.mapping.content)]

\* find_relevant_textbook_chunks, line 92, with the test always true
VECTOR_DB_is_None_always == TRUE

\* find_relevant_textbook_chunks, line 92: if VECTOR_DB is None
VECTOR_DB_is_None == ~VECTOR_DB.loaded

\* ------------------------------------------------------ get_embedding
\* the single-item embed call raises, or returns a vector
EmbedOutcomes ==
    { [raised |-> TRUE, vec |-> NoVector],
      [raised |-> FALSE, vec |-> Vec(EMBEDDING_DIM, <<1, 0>>)],
      [raised |-> FALSE, vec |-> Vec(EMBEDDING_DIM, <<1, 1>>)],
      [raised |-> FALSE, vec |-> Vec(EMBEDDING_DIM, <<1, 2>>)] }

\* get_embedding without the fallback of its except branch
get_embedding_noFallback(e) == e.vec
get_embedding(e) == IF e.raised THEN ZERO_VECTOR ELSE e.vec

\* ------------------------------------- find_relevant_textbook_chunks
\* scores[k] = dot / (norms[k] * query_norm); 0/0 is nan
Score(vec, q) == [nan |-> NormSq(vec) = 0, dot |-> Dot(vec, q), nsq |-> NormSq(vec)]

\* the scores compared by their difference dot - norm, not their quotient
ScoreLess_difference(x, y) == x.dot - x.nsq < y.dot - y.nsq
\* x < y for two scores that are numbers (query_norm > 0 is common to both)
ScoreLess(x, y) ==
    Sgn(x.dot) * x.dot * x.dot * y.nsq < Sgn(y.dot) * y.dot * y.dot * x.nsq

\* x has to come before y in an ascending sort; nan sorts to the end
SortsBefore(x, y) ==
    \/ ~x.nan /\ y.nan
    \/ ~x.nan /\ ~y.nan /\ ScoreLess(x, y)

\* np.argsort(scores): the index orders an ascending sort may return; the
\* default sort is not stable, so equal scores come in any order
Argsort(scores) ==
    { p \in [1..Len(scores) -> 1..Len(scores)] :
        /\ \A a, b \in 1..Len(scores) : a # b => p[a] # p[b]
        /\ \A a, b \in 1..Len(scores) :
              a < b => ~SortsBefore(scores[p[b]], scores[p[a]]) }

\* [::-1][:3]
TopIndices(p) == [k \in 1..Min(3, Len(p)) |-> p[Len(p) + 1 - k]]

\* f"{scores[idx]:.2f}": the digits are not modelled
FormatScore(score) == <<"#">>

\* lines 116-122
BuildContext(db, scores, top) ==
    Join(JOIN_SEP,
         [k \in 1..Len(top) |->
            MATCH_HEAD \o FormatScore(scores[top[k]]) \o MATCH_TAIL \o
            (IF db.ids[top[k]] \in DOMAIN db.texts
             THEN db.texts[db.ids[top[k]]] ELSE <<>>)])

\* the entries of top_indices, in order: index, chunk id, score
Matches(db, scores, top) ==
    [k \in 1..Len(top) |->
       [index |-> top[k], id |-> db.ids[top[k]], score |-> scores[top[k]]]]

Returned(ctx, top) == [exc |-> "none", context |-> ctx, top |-> top]
Raised(exc) == [exc |-> exc, context |-> <<>>, top |-> <<>>]

\* lines 105-122, for a loaded VECTOR_DB and the query vector q: the set of
\* ways the search can end
Search(db, q) ==
    IF Len(db.embeddings) = 0
    THEN \* np.array([]) is 1-D: np.linalg.norm(vectors, axis=1) raises
         {Raised("AxisError")}
    ELSE IF NormSq(q) = 0
    THEN {Returned(<<>>, <<>>)}
    ELSE IF \E k \in 1..Len(db.embeddings) : db.embeddings[k].dim # q.dim
    THEN {Raised("ValueError")}
    ELSE LET scores == [k \in 1..Len(db.embeddings) |-> Score(db.embeddings[k], q)]
         IN  { Returned(BuildContext(db, scores, TopIndices(p)),
                        Matches(db, scores, TopIndices(p))) : p \in Argsort(scores) }

\* ------------------------------------------------------ detect_category
AnyKeyword(kws, combined) == \E k \in 1..Len(kws) : Contains(combined, kws[k])

\* the chain of lines 150-161 with the COPD test moved before the Asthma test
detect_category_copdFirst(topic, text) ==
    CHOOSE category \in
        { IF AnyKeyword(TB_KEYWORDS, combined) THEN cat_TB
          ELSE IF AnyKeyword(COPD_KEYWORDS, combined) THEN cat_COPD
          ELSE IF AnyKeyword(ASTHMA_KEYWORDS, combined) THEN cat_Asthma
          ELSE IF AnyKeyword(ARDS_KEYWORDS, combined) THEN cat_ARDS
          ELSE IF AnyKeyword(PNEUMONIA_KEYWORDS, combined) THEN cat_Pneumonia
          ELSE cat_Other : combined \in {Lower(topic \o SPACE \o text)} } : TRUE

\* (combined is bound by a set constructor so that it is computed once)
detect_category(topic, text) ==
    CHOOSE category \in
        { IF AnyKeyword(TB_KEYWORDS, combined) THEN cat_TB
          ELSE IF AnyKeyword(ASTHMA_KEYWORDS, combined) THEN cat_Asthma
          ELSE IF AnyKeyword(ARDS_KEYWORDS, combined) THEN cat_ARDS
          ELSE IF AnyKeyword(COPD_KEYWORDS, combined) THEN cat_COPD
          ELSE IF AnyKeyword(PNEUMONIA_KEYWORDS, combined) THEN cat_Pneumonia
          ELSE cat_Other : combined \in {Lower(topic \o SPACE \o text)} } : TRUE

\* --------------------------------------------------------------- main
NoError == [raised |-> FALSE, exc |-> "none", at |-> 0]

DetInit ==
    /\ guideline_file \in GuidelineFiles
    /\ baseline \in Baselines
    /\ det_pc = "start"
    /\ g_chunks = <<>>
    /\ ci = 1
    /\ VECTOR_DB = None
    /\ db_loads = 0
    /\ query_vec = NoVector
    /\ textbook_context = <<>>
    /\ result = JNull
    /\ trends = <<>>
    /\ origin = <<>>
    /\ response = NoResponse
    /\ top_matches = <<>>
    /\ embed_requests = 0
    /\ embed_failed = FALSE
    /\ oracle_requests = 0
    /\ prompt = NoPrompt
    /\ error = NoError
    \* with no guideline file, a report of an earlier run may be there
    /\ report \in (IF guideline_file.exists THEN {NoFile}
                   ELSE {NoFile,
                         FileOf([metadata |-> [total_trends |-> 0,
                                               sources_analyzed |-> <<>>],
                                 trends |-> <<>>])})
    \* the indexer is not started
    /\ chunks_file = NoFile
    /\ idx_pc = "idle"
    /\ chunks = <<>>
    /\ i = 0
    /\ plan = <<>>
    /\ attempt = 0
    /\ requests = 0
    /\ delays = <<>>
    /\ call_result = "none"
    /\ raised_error = "none"
    /\ service_dim = EMBEDDING_DIM
    /\ embeddings_data = [ids |-> <<>>, embeddings |-> <<>>]
    /\ mapping = <<>>
    /\ batch_result = <<>>
    /\ sleeps = <<>>
    /\ files = [embeddings |-> NoFile, mapping |-> NoFile, metadata |-> NoFile]
    \* the ingester is not started
    /\ data_dir = [exists |-> FALSE, files |-> <<>>]
    /\ ing_pc = "idle"
    /\ fi = 1
    /\ seg_text = <<>>
    /\ seg_source = <<>>
    /\ seg_pattern = 1
    /\ seg_chunks = <<>>
    /\ all_chunks = <<>>
    /\ output_chunks = NoFile
    \* the MCQ generator is not started
    /\ mcq_pc = "idle"
    /\ mcq_count = 0
    /\ relevant_chunks = <<>>
    /\ remaining = 0
    /\ current_batch = 0
    /\ all_mcqs = <<>>
    /\ gen_response = NoResponse

\* an exception leaves main: nothing after it runs
Crash(exc) ==
    /\ det_pc' = "crashed"
    /\ error' = [raised |-> TRUE, exc |-> exc, at |-> ci]

\* main, lines 164-176
DetStart ==
    /\ UNCHANGED <<idx_vars, ing_vars, mcq_vars>>
    /\ det_pc = "start"
    /\ IF ~guideline_file.exists
       THEN /\ det_pc' = "returned"
            /\ UNCHANGED g_chunks
       ELSE /\ g_chunks' = guideline_file.content
            /\ det_pc' = IF Len(guideline_file.content) = 0 THEN "report" ELSE "find"
    /\ UNCHANGED <<guideline_file, baseline, ci, VECTOR_DB, db_loads, query_vec,
                   textbook_context, result, trends, origin, response,
                   top_matches, embed_requests, embed_failed,
                   oracle_requests, prompt, error, report>>

\* the test of line 128 without its second operand
AfterContext_noSentinel(ctx) ==
    IF Len(ctx) = 0
    THEN /\ result' = NO_SHIFT
         /\ det_pc' = "record"
    ELSE /\ det_pc' = "classify"
         /\ UNCHANGED result

\* analyze_chunk, lines 128-130, once textbook_context is known
AfterContext(ctx) ==
    IF Len(ctx) = 0 \/ Contains(ctx, kw_unavailable)
    THEN /\ result' = NO_SHIFT
         /\ det_pc' = "record"
    ELSE /\ det_pc' = "classify"
         /\ UNCHANGED result

\* analyze_chunk line 126: find_relevant_textbook_chunks(chunk), lines 90-122
FindRelevant ==
    /\ UNCHANGED <<idx_vars, ing_vars, mcq_vars>>
    /\ det_pc = "find"
    /\ response' = NoResponse
    /\ oracle_requests' = 0
    /\ prompt' = NoPrompt
    /\ LET db == IF VECTOR_DB_is_None THEN load_vector_db ELSE VECTOR_DB
       IN  /\ VECTOR_DB' = db
           /\ db_loads' = IF VECTOR_DB_is_None /\ db.loaded
                          THEN db_loads + 1 ELSE db_loads
           /\ IF ~db.loaded
              THEN /\ textbook_context' = UNAVAILABLE_MSG
                   /\ AfterContext(UNAVAILABLE_MSG)
                   /\ top_matches' = <<>>
                   /\ embed_requests' = 0
                   /\ embed_failed' = FALSE
                   /\ UNCHANGED <<query_vec, error>>
              ELSE \E e \in EmbedOutcomes :
                     /\ query_vec' = get_embedding(e)
                     /\ embed_requests' = 1
                     /\ embed_failed' = e.raised
                     /\ \E out \in Search(db, get_embedding(e)) :
                          IF out.exc # "none"
                          THEN /\ Crash(out.exc)
                               /\ top_matches' = <<>>
                               /\ UNCHANGED <<textbook_context, result>>
                          ELSE /\ textbook_context' = out.context
                               /\ top_matches' = out.top
                               /\ AfterContext(out.context)
                               /\ UNCHANGED error
    /\ UNCHANGED <<guideline_file, baseline, g_chunks, ci, trends, origin, report>>

\* analyze_chunk, lines 132-144: the oracle call and the parse of its text
ParseVerdict_returnsNone(o) ==
    IF o.kind = "error" THEN NO_SHIFT
    ELSE LET parsed == json_loads(ReplaceAll(ReplaceAll(Strip(o.text),
                                      <<FENCE, WORD_JSON>>), <<FENCE>>))
         IN  IF parsed.raised THEN JNull ELSE parsed.v
ParseVerdict(o) ==
    IF o.kind = "error" THEN NO_SHIFT
    ELSE LET parsed == json_loads(ReplaceAll(ReplaceAll(Strip(o.text),
                                      <<FENCE, WORD_JSON>>), <<FENCE>>))
         IN  IF parsed.raised THEN NO_SHIFT ELSE parsed.v

Classify ==
    /\ UNCHANGED <<idx_vars, ing_vars, mcq_vars>>
    /\ det_pc = "classify"
    /\ \E o \in OracleOutcomes :
          /\ response' = o
          /\ result' = ParseVerdict(o)
    /\ oracle_requests' = 1
    /\ prompt' = [guideline_text |-> Slice(g_chunks[ci].text, PROMPT_CHARS),
                  textbook_text |-> Slice(textbook_context, PROMPT_CHARS)]
    /\ det_pc' = "record"
    /\ UNCHANGED <<guideline_file, baseline, g_chunks, ci, VECTOR_DB, db_loads,
                   query_vec,
                   textbook_context, trends, origin, top_matches,
                   embed_requests, embed_failed, error, report>>

\* main, line 183: if result.get(has_shift)
HasShift(r) == Truthy(Get(r, "has_shift", JNull))

\* the merge with the verdict's own keys written last
TrendOf_verdictWins(r, source, category) ==
    JDict([key \in DOMAIN r.o \cup {"source_guideline", "category"} |->
             IF key \in DOMAIN r.o THEN r.o[key]
             ELSE IF key = "source_guideline" THEN JStr(source)
             ELSE JStr(category)])

\* main, lines 187-191: {**result, "source_guideline": ..., "category": ...}
TrendOf(r, source, category) ==
    JDict([key \in DOMAIN r.o \cup {"source_guideline", "category"} |->
             IF key = "source_guideline" THEN JStr(source)
             ELSE IF key = "category" THEN JStr(category)
             ELSE r.o[key]])

NextChunk ==
    /\ ci' = ci + 1
    /\ det_pc' = IF ci + 1 > Len(g_chunks) THEN "report" ELSE "find"

\* Record without the has_shift test of line 183 (the score read with .get)
Record_noShiftTest ==
    /\ UNCHANGED <<idx_vars, ing_vars, mcq_vars>>
    /\ det_pc = "record"
    /\ IF result.t # "dict"
       THEN /\ Crash("AttributeError")
            /\ UNCHANGED <<ci, trends, origin>>
       ELSE LET topic == Get(result, "topic", JStr(<<>>))
                new_concept == Get(result, "new_concept", JStr(<<>>))
            IN  IF topic.t # "str" \/ new_concept.t # "str"
                THEN /\ Crash("TypeError")
                     /\ UNCHANGED <<ci, trends, origin>>
                ELSE /\ trends' = Append(trends,
                            TrendOf(result, g_chunks[ci].metadata.source,
                                    detect_category(topic.s, new_concept.s)))
                     /\ origin' = Append(origin, [chunk |-> ci, response |-> response])
                     /\ NextChunk
                     /\ UNCHANGED error
    /\ UNCHANGED <<guideline_file, baseline, g_chunks, VECTOR_DB, db_loads,
                   query_vec,
                   textbook_context, result, response, top_matches,
                   embed_requests, embed_failed, oracle_requests, prompt,
                   report>>

\* main, lines 183-191, for the result analyze_chunk returned
Record ==
    /\ UNCHANGED <<idx_vars, ing_vars, mcq_vars>>
    /\ det_pc = "record"
    /\ IF result.t # "dict"
       THEN /\ Crash("AttributeError")
            /\ UNCHANGED <<ci, trends, origin>>
       ELSE IF ~HasShift(result)
       THEN /\ NextChunk
            /\ UNCHANGED <<trends, origin, error>>
       ELSE LET topic == Get(result, "topic", JStr(<<>>))
                new_concept == Get(result, "new_concept", JStr(<<>>))
            IN  IF topic.t # "str" \/ new_concept.t # "str"
                THEN /\ Crash("TypeError")
                     /\ UNCHANGED <<ci, trends, origin>>
                ELSE IF "exam_relevance_score" \notin DOMAIN result.o
                THEN /\ Crash("KeyError")
                     /\ UNCHANGED <<ci, trends, origin>>
                ELSE /\ trends' = Append(trends,
                            TrendOf(result, g_chunks[ci].metadata.source,
                                    detect_category(topic.s, new_concept.s)))
                     /\ origin' = Append(origin, [chunk |-> ci, response |-> response])
                     /\ NextChunk
                     /\ UNCHANGED error
    /\ UNCHANGED <<guideline_file, baseline, g_chunks, VECTOR_DB, db_loads,
                   query_vec,
                   textbook_context, result, response, top_matches,
                   embed_requests, embed_failed, oracle_requests, prompt,
                   report>>

\* the list comprehension of line 197 without set()
SourcesAnalyzed_noSet(ts) ==
    { [k \in 1..Len(ts) |-> ts[k].o["source_guideline"].s] }

\* list(set(...)) over the source_guideline of the trends, line 197: the
\* lists it can return, each distinct source once, in the order in which
\* the set happens to be iterated
SourcesAnalyzed(ts) ==
    LET sources == { ts[k].o["source_guideline"].s : k \in 1..Len(ts) }
    IN  { order \in [1..Cardinality(sources) -> sources] :
             \A a, b \in 1..Cardinality(sources) :
                 a # b => order[a] # order[b] }

\* main, lines 193-207
WriteReport ==
    /\ UNCHANGED <<idx_vars, ing_vars, mcq_vars>>
    /\ det_pc = "report"
    /\ \E sources_analyzed \in SourcesAnalyzed(trends) :
          report' = FileOf([metadata |-> [total_trends |-> Len(trends),
                                          sources_analyzed |-> sources_analyzed],
                            trends |-> trends])
    /\ det_pc' = "done"
    /\ UNCHANGED <<guideline_file, baseline, g_chunks, ci, VECTOR_DB, db_loads,
                   query_vec,
                   textbook_context, result, trends, origin, response,
                   top_matches, embed_requests, embed_failed,
                   oracle_requests, prompt, error>>

DetNext ==
    \/ DetStart
    \/ FindRelevant
    \/ Classify
    \/ Record
    \/ WriteReport

(***************************************************************************)
(*                        guideline_ingester.py                            *)
(*                                                                         *)
(* A cleaned text is a sequence of blocks joined by one newline. A block   *)
(* is w words of wlen characters each, consecutive words gap white-space   *)
(* characters apart. pats holds the heading patterns (1..6) whose search   *)
(* matches the block, which is then one heading line; starts holds the     *)
(* patterns re.match accepts at the start of the stripped block (a body    *)
(* whose first line is an indented heading is no match inside the text     *)
(* and is one once stripped).                                              *)
(***************************************************************************)

\* ------------------------------------------------------------- bounds
MaxBlocks == 3

\* ---------------------------------------------------------- constants
MIN_FRAGMENT == 50
MIN_TEXT == 200
chunk_size == 2000
MIN_WINDOW == 100

\* the six entries of the list patterns, in list order
patterns == 1..6

DATA_DIR == <<"d","a","t","a","/","g","u","i","d","e","l","i","n","e","s">>

Block(pats, starts, w, wlen, gap) ==
    [pats |-> pats, starts |-> starts, w |-> w, wlen |-> wlen, gap |-> gap]

\* a line the search of pattern p matches
HeadingLine(p) == Block({p}, {p}, 2, 6, 1)

\* body blocks: one word of exactly 50 and of 51 characters; 20 words (119
\* characters); 401 one-letter words; 2 words 200 blanks apart; 20 words
\* whose first line is an indented 1.1 heading
BodyBlocks ==
    { Block({}, {}, 1, MIN_FRAGMENT, 1),
      Block({}, {}, 1, MIN_FRAGMENT + 1, 1),
      Block({}, {}, 20, 5, 1),
      Block({}, {}, (chunk_size \div 5) + 1, 1, 1),
      Block({}, {}, 2, 5, MIN_TEXT),
      Block({}, {1}, 20, 5, 1) }

\* load_pdf + clean_text: the cleaned texts of the PDF files: the short
\* ones, and a longer document (text before the first 1.1 heading, then
\* three 1.1 sections of 50, 51 and 119 characters)
Texts ==
    SeqsUpTo({ HeadingLine(p) : p \in patterns } \cup BodyBlocks, MaxBlocks)
    \cup { << Block({}, {}, 1, MIN_FRAGMENT + 1, 1),
              HeadingLine(1), Block({}, {}, 1, MIN_FRAGMENT, 1),
              HeadingLine(1), Block({}, {}, 1, MIN_FRAGMENT + 1, 1),
              HeadingLine(1), Block({}, {}, 20, 5, 1) >> }

\* len(block)
BlockLen(b) == b.w * b.wlen + (b.w - 1) * b.gap

\* len of blocks a..b of text joined by newlines: the length of a stripped
\* part, 0 when the part is empty
RECURSIVE SpanLen(_, _, _)
SpanLen(txt, a, b) ==
    IF a > b THEN 0
    ELSE IF a = b THEN BlockLen(txt[a])
    ELSE BlockLen(txt[a]) + 1 + SpanLen(txt, a + 1, b)

\* len(text)
TextLen(txt) == SpanLen(txt, 1, Len(txt))

\* str(n)
RECURSIVE Str(_)
Str(n) ==
    LET digits == <<"0","1","2","3","4","5","6","7","8","9">>
    IN  IF n < 10 THEN <<digits[n + 1]>>
        ELSE Str(n \div 10) \o <<digits[(n % 10) + 1]>>

\* str(pdf_file) for a file of DATA_DIR
PathOf(name) == DATA_DIR \o <<"/">> \o name

\* os.path.basename(source)
RECURSIVE basename(_)
basename(path) ==
    IF Contains(path, <<"/">>) THEN basename(Tail(path)) ELSE path

\* f"guide_{os.path.basename(source).replace('.pdf', '')}_{len(chunks)}"
chunk_id(src, n) ==
    <<"g","u","i","d","e","_">>
    \o ReplaceAll(basename(src), <<".","p","d","f">>) \o <<"_">> \o Str(n)

\* the values of current_header and of the topic of a window chunk
TopicIntroduction == [kind |-> "Introduction", first |-> 0, last |-> 0]
TopicPart(part) == [kind |-> "text", first |-> part.first, last |-> part.last]
TopicSection(n) == [kind |-> "Section", first |-> n, last |-> n]

\* a part of re.split: blocks first..last of the text, stripped
Part(heading, first, last) == [heading |-> heading, first |-> first, last |-> last]

\* the dict with a sequence number counted from 1
MakeChunk_fromOne(src, n, topic, unit, first, last, len) ==
    [id |-> chunk_id(src, n + 1),
     text |-> [topic |-> topic, source |-> basename(src),
               content |-> [unit |-> unit, first |-> first, last |-> last,
                            len |-> len]],
     metadata |-> [source |-> basename(src), type |-> "guideline",
                   topic |-> topic]]

\* the dict appended to chunks, lines 75-83 and 97-105
MakeChunk(src, n, topic, unit, first, last, len) ==
    [id |-> chunk_id(src, n),
     text |-> [topic |-> topic, source |-> basename(src),
               content |-> [unit |-> unit, first |-> first, last |-> last,
                            len |-> len]],
     metadata |-> [source |-> basename(src), type |-> "guideline",
                   topic |-> topic]]

\* re.split(pattern, text) from block k on: the text up to the next
\* heading line, the heading, and so on
RECURSIVE SplitFrom(_, _, _)
SplitFrom(p, txt, k) ==
    LET hs == { h \in k..Len(txt) : p \in txt[h].pats }
    IN  IF hs = {} THEN << Part(FALSE, k, Len(txt)) >>
        ELSE LET h == CHOOSE x \in hs : \A y \in hs : x <= y
             IN  << Part(FALSE, k, h - 1), Part(TRUE, h, h) >>
                 \o SplitFrom(p, txt, h + 1)

re_split(p, txt) == SplitFrom(p, txt, 1)

\* re.match(pattern, part) for a stripped part
re_match(p, txt, part) ==
    \/ part.heading
    \/ part.first <= part.last /\ p \in txt[part.first].starts

\* if len(part) > 50
FragmentKept_orEqual(len) == len >= MIN_FRAGMENT
FragmentKept(len) == len > MIN_FRAGMENT

\* the for loop over splits, lines 64-83, from part k on
RECURSIVE EmitFrom(_, _, _, _, _, _, _)
EmitFrom(p, txt, src, splits, k, current_header, chunks_) ==
    IF k > Len(splits) THEN chunks_
    ELSE LET part == splits[k]
         IN  IF re_match(p, txt, part)
             THEN EmitFrom(p, txt, src, splits, k + 1, TopicPart(part), chunks_)
             ELSE IF FragmentKept(SpanLen(txt, part.first, part.last))
             THEN EmitFrom(p, txt, src, splits, k + 1, current_header,
                      Append(chunks_,
                          MakeChunk(src, Len(chunks_), current_header, "blocks",
                                    part.first, part.last,
                                    SpanLen(txt, part.first, part.last))))
             ELSE EmitFrom(p, txt, src, splits, k + 1, current_header, chunks_)

\* one iteration of for pattern in patterns, lines 61-83: splits[0] is
\* skipped (if i == 0: continue)
PatternChunks(p, txt, src, chunks_) ==
    EmitFrom(p, txt, src, re_split(p, txt), 2, TopicIntroduction, chunks_)

\* len(text.split())
RECURSIVE NumWords(_, _)
NumWords(txt, k) == IF k = 0 THEN 0 ELSE NumWords(txt, k - 1) + txt[k].w

\* len(' '.join(words[lo - 1:hi])) for 1 <= lo <= hi <= len(words)
JoinedLen(txt, lo, hi) ==
    LET inBlock(k) ==
            LET from == IF lo > NumWords(txt, k - 1) + 1 THEN lo
                        ELSE NumWords(txt, k - 1) + 1
                to == Min(hi, NumWords(txt, k))
            IN  IF to >= from THEN (to - from + 1) * txt[k].wlen ELSE 0
    IN  SumSeq([k \in 1..Len(txt) |-> inBlock(k)]) + (hi - lo)

\* if len(chunk_text) > 100
WindowKept_fullOnly(len) == len >= chunk_size
WindowKept(len) == len > MIN_WINDOW

\* the fallback loop, lines 93-105, from the window that starts at word
\* start + 1 on
RECURSIVE WindowsFrom(_, _, _, _)
WindowsFrom(txt, src, start, chunks_) ==
    LET n == NumWords(txt, Len(txt))
        size == chunk_size \div 5
    IN  IF start >= n THEN chunks_
        ELSE LET hi == Min(start + size, n)
                 len == JoinedLen(txt, start + 1, hi)
             IN  WindowsFrom(txt, src, start + size,
                    IF WindowKept(len)
                    THEN Append(chunks_,
                             MakeChunk(src, Len(chunks_),
                                       TopicSection(Len(chunks_) + 1),
                                       "words", start + 1, hi, len))
                    ELSE chunks_)

\* lines 89-107: the fallback, and what chunk_by_headers returns
Fallback_noLengthTest(txt, src, chunks_) ==
    IF Len(chunks_) = 0
    THEN WindowsFrom(txt, src, 0, chunks_)
    ELSE chunks_
Fallback(txt, src, chunks_) ==
    IF Len(chunks_) = 0 /\ TextLen(txt) > MIN_TEXT
    THEN WindowsFrom(txt, src, 0, chunks_)
    ELSE chunks_

\* the chunks list when the loop over the patterns is left, from pattern p on
RECURSIVE AfterPatterns(_, _, _, _)
AfterPatterns(p, txt, src, chunks_) ==
    IF p \notin patterns THEN chunks_
    ELSE LET got == PatternChunks(p, txt, src, chunks_)
         IN  IF Len(got) > 0 THEN got ELSE AfterPatterns(p + 1, txt, src, got)

chunk_by_headers(txt, src) == Fallback(txt, src, AfterPatterns(1, txt, src, <<>>))

\* ------------------------------------------------- process_directory
\* the texts of the files of a directory of two PDF files
PairTexts == { << HeadingLine(1), Block({}, {}, 20, 5, 1) >> }

\* gold.pdf, gina.pdf, gold.pdf.pdf
PdfNames == {src_gold, src_gina, src_gold \o <<".","p","d","f">>}

\* DATA_DIR: missing, or holding one or two PDF files, in glob order
Directories ==
    { [exists |-> FALSE, files |-> <<>>], [exists |-> TRUE, files |-> <<>>] }
    \cup { [exists |-> TRUE, files |-> << [name |-> src_gold, text |-> t] >>] :
             t \in Texts }
    \cup { [exists |-> TRUE, files |-> << [name |-> ab[1], text |-> t],
                                          [name |-> ab[2], text |-> u] >>] :
             ab \in { x \in PdfNames \X PdfNames : x[1] # x[2] },
             t \in PairTexts, u \in PairTexts }

\* all_chunks after the files from position k on were processed
RECURSIVE ChunksOfFiles(_, _)
ChunksOfFiles(fs, k) ==
    IF k > Len(fs) THEN <<>>
    ELSE chunk_by_headers(fs[k].text, PathOf(fs[k].name)) \o ChunksOfFiles(fs, k + 1)

\* lines 121-131: what process_directory writes to OUTPUT_CHUNKS
process_directory(dir) == ChunksOfFiles(dir.files, 1)

\* the chunk streams process_directory persists for the directories of two
\* PDF files
IngestedFiles ==
    { FileOf(process_directory(d)) : d \in { x \in Directories : Len(x.files) = 2 } }

IngInit ==
    /\ data_dir \in Directories
    /\ ing_pc = "start"
    /\ fi = 1
    /\ seg_text = <<>>
    /\ seg_source = <<>>
    /\ seg_pattern = 1
    /\ seg_chunks = <<>>
    /\ all_chunks = <<>>
    \* with no source directory, the chunks of an earlier run may be there
    /\ output_chunks \in
          (IF data_dir.exists THEN {NoFile}
           ELSE {NoFile,
                 FileOf(chunk_by_headers(<< HeadingLine(1), Block({}, {}, 20, 5, 1) >>,
                                         PathOf(src_gina)))})
    \* the indexer is not started
    /\ chunks_file = NoFile
    /\ idx_pc = "idle"
    /\ chunks = <<>>
    /\ i = 0
    /\ plan = <<>>
    /\ attempt = 0
    /\ requests = 0
    /\ delays = <<>>
    /\ call_result = "none"
    /\ raised_error = "none"
    /\ service_dim = EMBEDDING_DIM
    /\ embeddings_data = [ids |-> <<>>, embeddings |-> <<>>]
    /\ mapping = <<>>
    /\ batch_result = <<>>
    /\ sleeps = <<>>
    /\ files = [embeddings |-> NoFile, mapping |-> NoFile, metadata |-> NoFile]
    \* the detection run is not started
    /\ guideline_file = NoFile
    /\ baseline = [embeddings |-> NoFile, mapping |-> NoFile]
    /\ det_pc = "idle"
    /\ g_chunks = <<>>
    /\ ci = 1
    /\ VECTOR_DB = None
    /\ db_loads = 0
    /\ query_vec = NoVector
    /\ textbook_context = <<>>
    /\ result = JNull
    /\ trends = <<>>
    /\ origin = <<>>
    /\ response = NoResponse
    /\ top_matches = <<>>
    /\ embed_requests = 0
    /\ embed_failed = FALSE
    /\ oracle_requests = 0
    /\ prompt = NoPrompt
    /\ error = NoError
    /\ report = NoFile
    \* the MCQ generator is not started
    /\ mcq_pc = "idle"
    /\ mcq_count = 0
    /\ relevant_chunks = <<>>
    /\ remaining = 0
    /\ current_batch = 0
    /\ all_mcqs = <<>>
    /\ gen_response = NoResponse

\* process_directory, lines 111-119
IngStart ==
    /\ UNCHANGED <<idx_vars, det_vars, mcq_vars>>
    /\ ing_pc = "start"
    /\ ing_pc' = IF data_dir.exists THEN "scan" ELSE "returned"
    /\ UNCHANGED <<data_dir, fi, seg_text, seg_source, seg_pattern, seg_chunks,
                   all_chunks, output_chunks>>

\* lines 122-125 and 59: the next file is loaded and cleaned and
\* chunk_by_headers is entered
BeginFile ==
    /\ UNCHANGED <<idx_vars, det_vars, mcq_vars>>
    /\ ing_pc = "scan"
    /\ fi <= Len(data_dir.files)
    /\ seg_text' = data_dir.files[fi].text
    /\ seg_source' = PathOf(data_dir.files[fi].name)
    /\ seg_pattern' = 1
    /\ seg_chunks' = <<>>
    /\ ing_pc' = "patterns"
    /\ UNCHANGED <<data_dir, fi, all_chunks, output_chunks>>

\* the loop over the patterns without the break of lines 86-87
TryPattern_noBreak ==
    /\ UNCHANGED <<idx_vars, det_vars, mcq_vars>>
    /\ ing_pc = "patterns"
    /\ seg_chunks' = PatternChunks(seg_pattern, seg_text, seg_source, seg_chunks)
    /\ IF seg_pattern + 1 \notin patterns
       THEN /\ ing_pc' = "fallback"
            /\ UNCHANGED seg_pattern
       ELSE /\ seg_pattern' = seg_pattern + 1
            /\ UNCHANGED ing_pc
    /\ UNCHANGED <<data_dir, fi, seg_text, seg_source, all_chunks, output_chunks>>

\* one iteration of for pattern in patterns, lines 61-87
TryPattern ==
    /\ UNCHANGED <<idx_vars, det_vars, mcq_vars>>
    /\ ing_pc = "patterns"
    /\ LET got == PatternChunks(seg_pattern, seg_text, seg_source, seg_chunks)
       IN  /\ seg_chunks' = got
           /\ IF Len(got) > 0 \/ seg_pattern + 1 \notin patterns
              THEN /\ ing_pc' = "fallback"
                   /\ UNCHANGED seg_pattern
              ELSE /\ seg_pattern' = seg_pattern + 1
                   /\ UNCHANGED ing_pc
    /\ UNCHANGED <<data_dir, fi, seg_text, seg_source, all_chunks, output_chunks>>

\* lines 89-107 and 126: the fallback, the return and all_chunks.extend
FinishFile ==
    /\ UNCHANGED <<idx_vars, det_vars, mcq_vars>>
    /\ ing_pc = "fallback"
    /\ seg_chunks' = Fallback(seg_text, seg_source, seg_chunks)
    /\ all_chunks' = all_chunks \o Fallback(seg_text, seg_source, seg_chunks)
    /\ fi' = fi + 1
    /\ ing_pc' = "scan"
    /\ UNCHANGED <<data_dir, seg_text, seg_source, seg_pattern, output_chunks>>

\* lines 129-131: OUTPUT_CHUNKS is written
WriteChunks ==
    /\ UNCHANGED <<idx_vars, det_vars, mcq_vars>>
    /\ ing_pc = "scan"
    /\ fi > Len(data_dir.files)
    /\ output_chunks' = FileOf(all_chunks)
    /\ ing_pc' = "done"
    /\ UNCHANGED <<data_dir, fi, seg_text, seg_source, seg_pattern, seg_chunks,
                   all_chunks>>

IngNext ==
    \/ IngStart
    \/ BeginFile
    \/ TryPattern
    \/ FinishFile
    \/ WriteChunks

\* the state when batch_indexer.py is started
IdxInit ==
    /\ chunks_file \in {NoFile} \cup ChunkFiles \cup IngestedFiles
    /\ idx_pc = "start"
    /\ chunks = <<>>
    /\ i = 0
    /\ plan = <<>>
    /\ attempt = 0
    /\ requests = 0
    /\ delays = <<>>
    /\ call_result = "none"
    /\ raised_error = "none"
    /\ service_dim = EMBEDDING_DIM
    /\ embeddings_data = [ids |-> <<>>, embeddings |-> <<>>]
    /\ mapping = <<>>
    /\ batch_result = <<>>
    /\ sleeps = <<>>
    \* with no chunk file, the index of an earlier run may be there
    /\ files \in
          (IF chunks_file.exists
           THEN {[embeddings |-> NoFile, mapping |-> NoFile, metadata |-> NoFile]}
           ELSE {[embeddings |-> NoFile, mapping |-> NoFile, metadata |-> NoFile],
                 [embeddings |-> FileOf(StoreResults([ids |-> <<>>, embeddings |-> <<>>],
                                           <<ChunkAt(1)>>,
                                           embed_content(<<ChunkAt(1).text>>, EMBEDDING_DIM))),
                  mapping    |-> FileOf(StoreMapping(<<>>, <<ChunkAt(1)>>, 0)),
                  metadata   |-> FileOf([totalChunks |-> 1,
                                         embeddingDimension |-> EMBEDDING_DIM])]})
    \* the detection run is not started
    /\ guideline_file = NoFile
    /\ baseline = [embeddings |-> NoFile, mapping |-> NoFile]
    /\ det_pc = "idle"
    /\ g_chunks = <<>>
    /\ ci = 1
    /\ VECTOR_DB = None
    /\ db_loads = 0
    /\ query_vec = NoVector
    /\ textbook_context = <<>>
    /\ result = JNull
    /\ trends = <<>>
    /\ origin = <<>>
    /\ response = NoResponse
    /\ top_matches = <<>>
    /\ embed_requests = 0
    /\ embed_failed = FALSE
    /\ oracle_requests = 0
    /\ prompt = NoPrompt
    /\ error = NoError
    /\ report = NoFile
    \* the ingester is not started
    /\ data_dir = [exists |-> FALSE, files |-> <<>>]
    /\ ing_pc = "idle"
    /\ fi = 1
    /\ seg_text = <<>>
    /\ seg_source = <<>>
    /\ seg_pattern = 1
    /\ seg_chunks = <<>>
    /\ all_chunks = <<>>
    /\ output_chunks = NoFile
    \* the MCQ generator is not started
    /\ mcq_pc = "idle"
    /\ mcq_count = 0
    /\ relevant_chunks = <<>>
    /\ remaining = 0
    /\ current_batch = 0
    /\ all_mcqs = <<>>
    /\ gen_response = NoResponse

SpecIndexer == IdxInit /\ [][IdxNext]_vars

SpecDetect == DetInit /\ [][DetNext]_vars

SpecIngest == IngInit /\ [][IngNext]_vars

\* main is sequential code and every call it makes returns or raises: from
\* a control point at which the run has not ended, execution moves on to
\* another control point (every step of DetNext changes det_pc or ci)
DetAdvance ==
    /\ det_pc \in {"start", "find", "classify", "record", "report"}
    /\ \E pc \in {"returned", "find", "classify", "record", "report", "done",
                  "crashed"} : det_pc' = pc
    /\ \E c \in {ci, ci + 1} : ci' = c

\* the detection run with its steps taken one after the other
SpecDetectFair == DetInit /\ [][DetNext]_vars /\ WF_<<det_pc, ci>>(DetAdvance)

\* one of the three stages is run
StageInit == IdxInit \/ DetInit \/ IngInit

SpecStages == StageInit /\ [][IdxNext \/ DetNext \/ IngNext]_vars

(***************************************************************************)
(*                        batch_mcq_generator.py                           *)
(***************************************************************************)

\* ------------------------------------------------------------- bounds
\* the largest mcqCount of a topic
MaxCount == 7

\* ---------------------------------------------------------- constants
batch_size == 5

\* object k of the JSON array the generation call answers with
McqAt(k) == JDict([question |-> JStr(<<"Q">> \o Str(k))])

\* an array of n such objects
McqList(n) == JList([k \in 1..n |-> McqAt(k)])

\* what client.models.generate_content does when count questions are asked
\* for: it raises; its text is None or empty; its text is white space or
\* prose; or its text is a JSON document, which is one object, an array of
\* something that is no object, or an array of 0, 1, count or count + 1
\* objects, with or without a code fence around it
McqOutcomes(count) ==
    { CallError, NoResponse, Text(<<>>),
      Text(<<NL>>), Text(<<PROSE>>),
      Text(Plain(McqAt(1))),
      Text(Plain(JList(<<JNum(1)>>))),
      Text(Plain(McqList(0))),
      Text(Plain(McqList(1))),
      Text(Plain(McqList(count))),
      Text(Fenced(McqList(count))),
      Text(Plain(McqList(count + 1))) }

\* text.startswith(prefix)
StartsWith(text, prefix) ==
    /\ Len(text) >= Len(prefix)
    /\ SubSeq(text, 1, Len(prefix)) = prefix

\* lines 247-265: the fields of processed_mcq that come from the response,
\* the topic and the chunk (the random id and the time stamp are left out)
ProcessedMcq(mcq, topic, source_chunk) ==
    [question |-> Get(mcq, "question", JStr(<<>>)),
     topic    |-> Get(mcq, "topic", JStr(topic)),
     chunkId  |-> source_chunk.id]

\* parse_mcq_response, lines 214-271: the list it returns, or the exception
\* that leaves it (mcq.get on a value that is no dict; only JSONDecodeError
\* is caught)
parse_mcq_response(response_text, topic, source_chunk) ==
    LET stripped == Strip(response_text)
        no_json  == IF StartsWith(stripped, <<FENCE, WORD_JSON>>)
                    THEN SubSeq(stripped, 3, Len(stripped)) ELSE stripped
        no_open  == IF StartsWith(no_json, <<FENCE>>)
                    THEN SubSeq(no_json, 2, Len(no_json)) ELSE no_json
        text     == IF Len(no_open) > 0 /\ no_open[Len(no_open)] = FENCE
                    THEN SubSeq(no_open, 1, Len(no_open) - 1) ELSE no_open
        parsed   == json_loads(Strip(text))
        mcqs     == IF parsed.v.t = "list" THEN parsed.v.a ELSE <<parsed.v>>
    IN  IF parsed.raised
        THEN [exc |-> "none", processed |-> <<>>]
        ELSE IF \E k \in 1..Len(mcqs) : mcqs[k].t # "dict"
        THEN [exc |-> "AttributeError", processed |-> <<>>]
        ELSE [exc |-> "none",
              processed |-> [k \in 1..Len(mcqs) |->
                                ProcessedMcq(mcqs[k], topic, source_chunk)]]

\* generate_mcqs_for_topic, lines 280-304: the early return and the set-up
\* of the loop
McqStart ==
    /\ UNCHANGED <<idx_vars, det_vars, ing_vars>>
    /\ mcq_pc = "start"
    /\ all_mcqs' = <<>>
    /\ IF relevant_chunks = <<>>
       THEN /\ mcq_pc' = "returned"
            /\ UNCHANGED remaining
       ELSE /\ remaining' = mcq_count
            /\ mcq_pc' = "loop"
    /\ UNCHANGED <<mcq_count, relevant_chunks, current_batch, gen_response>>

\* lines 306-311: the loop test and the prompt of the next call
McqLoop ==
    /\ UNCHANGED <<idx_vars, det_vars, ing_vars>>
    /\ mcq_pc = "loop"
    /\ IF remaining > 0
       THEN /\ current_batch' = Min(batch_size, remaining)
            /\ mcq_pc' = "call"
       ELSE /\ mcq_pc' = "returned"
            /\ UNCHANGED current_batch
    /\ UNCHANGED <<mcq_count, relevant_chunks, remaining, all_mcqs, gen_response>>

\* lines 313-336: one generation call and what the loop body does with it
McqCall ==
    /\ UNCHANGED <<idx_vars, det_vars, ing_vars>>
    /\ mcq_pc = "call"
    /\ \E o \in McqOutcomes(current_batch) :
          /\ gen_response' = o
          /\ IF o.kind = "text" /\ Len(o.text) > 0
             THEN LET mcqs == parse_mcq_response(o.text, topic_copd,
                                                 relevant_chunks[1])
                  IN  IF mcqs.exc = "none"
                      THEN /\ all_mcqs' = all_mcqs \o mcqs.processed
                           /\ remaining' = remaining - Len(mcqs.processed)
                      ELSE /\ remaining' = remaining - current_batch
                           /\ UNCHANGED all_mcqs
             ELSE /\ remaining' = remaining - current_batch
                  /\ UNCHANGED all_mcqs
    /\ mcq_pc' = "loop"
    /\ UNCHANGED <<mcq_count, relevant_chunks, current_batch>>

McqNext ==
    \/ McqStart
    \/ McqLoop
    \/ McqCall

\* the state when generate_mcqs_for_topic is called for one topic
McqInit ==
    /\ mcq_pc = "start"
    /\ mcq_count \in 0..MaxCount
    /\ relevant_chunks \in {<<>>, <<ChunkAt(1)>>}
    /\ remaining = 0
    /\ current_batch = 0
    /\ all_mcqs = <<>>
    /\ gen_response = NoResponse
    \* the indexer is not started
    /\ chunks_file = NoFile
    /\ idx_pc = "idle"
    /\ chunks = <<>>
    /\ i = 0
    /\ plan = <<>>
    /\ attempt = 0
    /\ requests = 0
    /\ delays = <<>>
    /\ call_result = "none"
    /\ raised_error = "none"
    /\ service_dim = EMBEDDING_DIM
    /\ embeddings_data = [ids |-> <<>>, embeddings |-> <<>>]
    /\ mapping = <<>>
    /\ batch_result = <<>>
    /\ sleeps = <<>>
    /\ files = [embeddings |-> NoFile, mapping |-> NoFile, metadata |-> NoFile]
    \* the detection run is not started
    /\ guideline_file = NoFile
    /\ baseline = [embeddings |-> NoFile, mapping |-> NoFile]
    /\ det_pc = "idle"
    /\ g_chunks = <<>>
    /\ ci = 1
    /\ VECTOR_DB = None
    /\ db_loads = 0
    /\ query_vec = NoVector
    /\ textbook_context = <<>>
    /\ result = JNull
    /\ trends = <<>>
    /\ origin = <<>>
    /\ response = NoResponse
    /\ top_matches = <<>>
    /\ embed_requests = 0
    /\ embed_failed = FALSE
    /\ oracle_requests = 0
    /\ prompt = NoPrompt
    /\ error = NoError
    /\ report = NoFile
    \* the ingester is not started
    /\ data_dir = [exists |-> FALSE, files |-> <<>>]
    /\ ing_pc = "idle"
    /\ fi = 1
    /\ seg_text = <<>>
    /\ seg_source = <<>>
    /\ seg_pattern = 1
    /\ seg_chunks = <<>>
    /\ all_chunks = <<>>
    /\ output_chunks = NoFile

SpecMcq == McqInit /\ [][McqNext]_vars

\* the function is sequential code and every call it makes returns or
\* raises: a step that can be taken is taken
SpecMcqFair == SpecMcq /\ WF_vars(McqNext)

(***************************************************************************)
(*                     Claims about batch_indexer.py                       *)
(***************************************************************************)

\* the chunk an id of the chunk file names: ChunkAt(k) carries id <<"chunk", k>>
\* the positions in the chunk list of the chunks of batch b (1-based)
BatchPositions(b) ==
    [j \in 1..(Min(b * BATCH_SIZE, Len(chunks)) - (b - 1) * BATCH_SIZE) |->
        (b - 1) * BATCH_SIZE + j]

\* the positions of the chunks of the successful batches among the first b
RECURSIVE StoredPositions(_)
StoredPositions(b) ==
    IF b = 0 THEN <<>>
    ELSE StoredPositions(b - 1) \o
         (IF batch_result[b] = "ok" THEN BatchPositions(b) ELSE <<>>)

CallFinished == call_result \in {"returned", "raised"}

\* the external call fails its first N requests with rate-limit errors and
\* succeeds afterwards
FailsThenSucceeds(N) == plan = [k \in 1..N |-> RATE_LIMITED]

\* the rate-limit failure is unbroken for as long as the call asks
UnbrokenRateLimit ==
    /\ Len(plan) >= 3
    /\ \A k \in 1..Len(plan) : plan[k] = RATE_LIMITED

NumBatches == (Len(chunks) + BATCH_SIZE - 1) \div BATCH_SIZE

\* the ids of batch b (1-based) of the chunk list, in chunk order
BatchIds(b) ==
    [j \in 1..(Min(b * BATCH_SIZE, Len(chunks)) - (b - 1) * BATCH_SIZE) |->
        chunks[(b - 1) * BATCH_SIZE + j].id]

\* the ids of the successful batches among the first b, in chunk order
RECURSIVE SuccessfulIds(_)
SuccessfulIds(b) ==
    IF b = 0 THEN <<>>
    ELSE SuccessfulIds(b - 1) \o
         (IF batch_result[b] = "ok" THEN BatchIds(b) ELSE <<>>)

\* C1: whatever batches succeeded or failed, the id list and the vector list
\* of the Index have the same length, and position k of the id list names
\* the chunk whose vector is at position k of the vector list.
C1_IdsAndVectorsAligned ==
    /\ Len(embeddings_data.ids) = Len(embeddings_data.embeddings)
    /\ LET stored == StoredPositions(Len(batch_result))
       IN  /\ Len(stored) = Len(embeddings_data.ids)
           /\ \A k \in 1..Len(embeddings_data.ids) :
                /\ embeddings_data.ids[k] = chunks[stored[k]].id
                /\ embeddings_data.embeddings[k].of = chunks[stored[k]].text

C1_Witness ==
    /\ idx_pc = "done"
    /\ \E b \in 1..Len(batch_result) : batch_result[b] = "failed"
    /\ Len(embeddings_data.ids) > BATCH_SIZE

\* C2: when the external call fails N times in a row with rate-limit errors
\* and succeeds afterwards, generate_batch_embeddings returns the vectors if
\* and only if N < 3.
C2_ReturnsIffFewerThanThreeFailures ==
    \A N \in 0..MaxFails :
        (CallFinished /\ FailsThenSucceeds(N)) =>
            (call_result = "returned" <=> N < 3)

C2_Witness ==
    /\ call_result = "returned"
    /\ FailsThenSucceeds(2)
    /\ requests = 3

\* C3: under an unbroken rate-limit failure the call issues exactly 3
\* external requests and then fails, and the backoff delays it waited are
\* non-decreasing, each one double the one before.
C3_ThreeRequestsDoublingDelays ==
    (CallFinished /\ UnbrokenRateLimit) =>
        /\ call_result = "raised"
        /\ requests = 3
        /\ Len(delays) = 3
        /\ \A k \in 2..Len(delays) :
              /\ delays[k] >= delays[k - 1]
              /\ delays[k] = 2 * delays[k - 1]

C3_Witness ==
    /\ call_result = "raised"
    /\ UnbrokenRateLimit
    /\ delays = <<2, 4, 8>>

\* C4: a batch whose embedding call fails terminally contributes no chunk to
\* the Index, every later batch is still processed, and the Index persisted
\* at the end holds exactly the chunks of the successful batches in their
\* original order.
C4_PartialResultsPersisted ==
    /\ embeddings_data.ids = SuccessfulIds(Len(batch_result))
    /\ idx_pc = "done" =>
          /\ Len(batch_result) = NumBatches
          /\ files.embeddings.exists
          /\ files.embeddings.content.ids = SuccessfulIds(NumBatches)
          /\ files.mapping.exists
          /\ [k \in 1..Len(files.mapping.content) |-> files.mapping.content[k].id]
                = SuccessfulIds(NumBatches)

C4_Witness ==
    /\ idx_pc = "done"
    /\ \E b1, b2 \in 1..Len(batch_result) :
          b1 < b2 /\ batch_result[b1] = "failed" /\ batch_result[b2] = "ok"
    /\ files.embeddings.exists
    /\ Len(files.embeddings.content.ids) > 0

(***************************************************************************)
(*                      Claims about diff_analysis.py                      *)
(***************************************************************************)

\* the raw responses whose JSON is {"has_shift": false}
NoShiftResponses == { Text(Plain(NO_SHIFT)), Text(Fenced(NO_SHIFT)) }

\* the raw responses that are not JSON, code fences stripped or not
UnparsableResponses == { Text(<<PROSE>>), Text(<<PROSE, NL, Doc(NO_SHIFT)>>) }

\* the raw responses that are a verdict as the prompt asks for it
WellFormedResponses ==
    NoShiftResponses \cup
    { Text(Plain(Shift(nc_cutoff))), Text(Fenced(Shift(nc_cutoff))),
      Text(Plain(Shift(nc_inhaler))) }

\* the oracle call failed, or its text is not a well-formed verdict
Malformed(o) ==
    \/ o.kind = "error"
    \/ o.kind = "text" /\ o \notin WellFormedResponses

\* C5: a guideline chunk whose oracle response is {"has_shift": false} never
\* appears in the trend list, whatever the other chunks of the run produce.
C5_NoShiftNeverRecorded ==
    /\ Len(origin) = Len(trends)
    /\ \A t \in 1..Len(origin) : origin[t].response \notin NoShiftResponses
    /\ (det_pc \in {"find", "report", "done"} /\ response \in NoShiftResponses) =>
          \A t \in 1..Len(origin) : origin[t].chunk # ci - 1
    /\ report.exists => report.content.trends = trends

C5_Witness ==
    /\ det_pc = "done"
    /\ response \in NoShiftResponses
    /\ Len(report.content.trends) = 1
    /\ origin[1].chunk = 1
    /\ ci = 3

\* C6: a guideline chunk whose oracle response is not parsable as JSON never
\* appears in the trend list; the step that handles it adds no trend and goes
\* on to the next chunk (it is never the chunk the run dies on), and a run
\* that ends has written its report after looking at every chunk.
C6_UnparsableIsSkipped ==
    /\ [](\A t \in 1..Len(origin) : origin[t].response \notin UnparsableResponses)
    /\ [](det_pc = "crashed" => response \notin UnparsableResponses)
    /\ [][(det_pc = "record" /\ response \in UnparsableResponses) =>
            /\ det_pc' = (IF ci = Len(g_chunks) THEN "report" ELSE "find")
            /\ ci' = ci + 1
            /\ trends' = trends]_vars
    /\ [](det_pc = "done" => report.exists /\ ci = Len(g_chunks) + 1)

C6_Witness ==
    /\ det_pc = "done"
    /\ report.exists
    /\ response \in UnparsableResponses
    /\ Len(g_chunks) = 2
    /\ Len(trends) = 1

\* C7: every oracle outcome that is a call failure or a malformed verdict is
\* treated as has_shift = false (no trend comes from it) and is never fatal
\* (the run does not die on it).
C7_MalformedNeverFatal ==
    /\ \A t \in 1..Len(origin) : ~Malformed(origin[t].response)
    /\ det_pc = "crashed" => ~Malformed(response)

\* the baseline Index exists and holds zero chunks
EmptyBaseline ==
    /\ baseline.embeddings.exists
    /\ baseline.mapping.exists
    /\ Len(baseline.embeddings.content.ids) = 0

\* C8: with a baseline Index of zero chunks every guideline chunk ends
\* SKIPPED, and the final report has an empty trend list and total_trends 0.
C8_EmptyBaselineAllSkipped ==
    EmptyBaseline =>
        /\ det_pc # "crashed"
        /\ trends = <<>>
        /\ det_pc = "done" =>
              /\ report.exists
              /\ report.content.trends = <<>>
              /\ report.content.metadata.total_trends = 0

\* the scenario of C9: a baseline of 3 chunks, one guideline chunk, a query
\* embedding of nonzero norm, and an oracle stub whose answer is the verdict
\* has_shift = true, topic "COPD GOLD staging update", for the changed cutoff
CopdScenario ==
    /\ baseline.embeddings.exists
    /\ baseline.mapping.exists
    /\ Len(baseline.embeddings.content.ids) = 3
    /\ guideline_file.exists
    /\ Len(guideline_file.content) = 1
    /\ query_vec # NoVector => NormSq(query_vec) # 0
    /\ response.kind # "none" => response = Text(Plain(Shift(nc_cutoff)))

\* C9: in that scenario the final report contains exactly one TrendRecord
\* and its category is "COPD".
C9_OneCopdTrend ==
    (CopdScenario /\ det_pc = "done") =>
        /\ report.exists
        /\ Len(report.content.trends) = 1
        /\ report.content.trends[1].o["category"] = JStr(cat_COPD)

\* C10: similarity search with a query vector of zero norm returns an empty
\* result for any Index, an Index with no vectors included, and raises no
\* error.
C10_ZeroQueryEmptyResult ==
    (VECTOR_DB.loaded /\ query_vec # NoVector /\ NormSq(query_vec) = 0) =>
        /\ det_pc # "crashed"
        /\ textbook_context = <<>>

(***************************************************************************)
(*                 similarity search (diff_analysis.py)                    *)
(***************************************************************************)

\* the last FindRelevant ran the search of lines 105-122
SearchRan == VECTOR_DB.loaded /\ embed_requests = 1

\* the search of the last FindRelevant ended in an exception
SearchCrashed == error.raised /\ error.exc \in {"AxisError", "ValueError"}

\* two scores are the same number
SameScore(x, y) == ~x.nan /\ ~y.nan /\ ~ScoreLess(x, y) /\ ~ScoreLess(y, x)

\* C11: similarity search returns at most 3 matches, exactly
\* min(3, number of stored vectors) of them when the query norm is nonzero,
\* ordered by cosine score from highest to lowest, and every returned match
\* is a chunk stored in the Index.
C11_TopThreeByScore ==
    SearchRan =>
        /\ Len(top_matches) <= 3
        /\ NormSq(query_vec) # 0 =>
              /\ ~SearchCrashed
              /\ Len(top_matches) = Min(3, Len(VECTOR_DB.ids))
        /\ \A a, b \in 1..Len(top_matches) :
              a < b => ~SortsBefore(top_matches[a].score, top_matches[b].score)
        /\ \A a \in 1..Len(top_matches) :
              /\ top_matches[a].index \in 1..Len(VECTOR_DB.ids)
              /\ top_matches[a].id = VECTOR_DB.ids[top_matches[a].index]

\* C12: when two stored vectors have equal similarity score to the query,
\* the search ranks the one inserted earlier in the Index before the one
\* inserted later.
C12_TiesByInsertionOrder ==
    SearchRan =>
        \A a, b \in 1..Len(top_matches) :
            (a < b /\ SameScore(top_matches[a].score, top_matches[b].score))
                => top_matches[a].index < top_matches[b].index

\* the query 2 * v
Scale(c, vec) == [vec EXCEPT !.v = [k \in DOMAIN vec.v |-> c * vec.v[k]]]

\* what a search shows to its caller: the exception, or the chunk ids in order
SearchOutcome(o) == [exc |-> o.exc, ids |-> [k \in 1..Len(o.top) |-> o.top[k].id]]

\* the state that follows a search: its result has not been used yet
SearchJustRan ==
    /\ SearchRan
    /\ \/ det_pc = "classify"
       \/ det_pc = "record" /\ oracle_requests = 0
       \/ SearchCrashed

\* C13: similarity search is invariant to positive scaling of the query:
\* for every Index and every query vector v of nonzero norm, the search for
\* v and the search for 2 * v return the same chunk ids in the same order
\* (checked in the state that follows each search).
C13_ScaleInvariant ==
    (SearchJustRan /\ NormSq(query_vec) # 0) =>
        LET doubled == { SearchOutcome(o) :
                           o \in Search(VECTOR_DB, Scale(2, query_vec)) }
        IN  /\ { SearchOutcome(o) : o \in Search(VECTOR_DB, query_vec) } = doubled
            /\ [exc |-> IF SearchCrashed THEN error.exc ELSE "none",
                ids |-> [k \in 1..Len(top_matches) |-> top_matches[k].id]]
                  \in doubled

\* a search over three stored vectors, two of which score the same
C13_Witness ==
    /\ SearchRan
    /\ NormSq(query_vec) # 0
    /\ Len(top_matches) = 3
    /\ \E a, b \in 1..3 :
          a # b /\ SameScore(top_matches[a].score, top_matches[b].score)

(***************************************************************************)
(*          dimension, other errors (batch_indexer.py)                     *)
(***************************************************************************)

\* C17: every vector stored in an Index has the same dimension as the first
\* vector stored; an embedding result of another dimension is never stored.
C17_UniformDimension ==
    \A k \in 1..Len(embeddings_data.embeddings) :
        embeddings_data.embeddings[k].dim = embeddings_data.embeddings[1].dim

\* the external call fails with a non-rate-limit error for as long as the
\* call asks
UnbrokenOtherError ==
    /\ Len(plan) >= 3
    /\ \A k \in 1..Len(plan) : plan[k] = OTHER_ERROR

\* C19: after a non-rate-limit failure the batched embed call sleeps the
\* same fixed delay (1 second) each time; under an unbroken non-rate-limit
\* failure it issues 3 requests in total and on the third failure raises
\* the external call's own error to the caller, which records the batch as
\* failed.
C19_FixedDelayThenExternalError ==
    /\ \A k \in 1..Len(delays) : plan[k] = OTHER_ERROR => delays[k] = 1
    /\ (CallFinished /\ UnbrokenOtherError) =>
          /\ call_result = "raised"
          /\ raised_error = "external"
          /\ requests = 3
          /\ delays = <<1, 1>>
          /\ batch_result[Len(batch_result)] = "failed"

C19_Witness ==
    /\ CallFinished
    /\ UnbrokenOtherError
    /\ raised_error = "external"
    /\ Len(delays) = 2

(***************************************************************************)
(*          retries of the external calls (diff_analysis.py)               *)
(***************************************************************************)

\* the oracle call of the chunk last classified raised
OracleFailed == response.kind = "error"

SegReturned == ing_pc \in {"scan", "done"} /\ fi > 1

\* no heading pattern yields a chunk for seg_text
NoHeadingChunk ==
    \A p \in patterns : Len(PatternChunks(p, seg_text, seg_source, <<>>)) = 0

\* the fragments the split by the pattern in use gives, splits[0] left out
Fragments ==
    LET splits == re_split(seg_pattern, seg_text)
    IN  { splits[k] : k \in { x \in 2..Len(splits) : ~splits[x].heading } }

\* C14: no chunk is emitted for a heading-split fragment whose trimmed
\* length is not greater than 50 characters, and a dropped fragment consumes
\* no sequence number: the chunks of one source are numbered 0, 1, 2, ...
\* without a gap.
C14_ShortFragmentsDropped ==
    \A k \in 1..Len(seg_chunks) :
        /\ seg_chunks[k].text.content.unit = "blocks" =>
              SpanLen(seg_text, seg_chunks[k].text.content.first,
                      seg_chunks[k].text.content.last) > 50
        /\ seg_chunks[k].id = chunk_id(seg_source, k - 1)

\* a fragment of 50 characters or fewer, not empty, was dropped and a later
\* fragment became chunk 0
C14_Witness ==
    /\ SegReturned
    /\ Len(seg_chunks) > 0
    /\ seg_chunks[1].text.content.unit = "blocks"
    /\ \E f \in Fragments :
          /\ f.first <= f.last
          /\ SpanLen(seg_text, f.first, f.last) <= 50
          /\ f.last < seg_chunks[1].text.content.first

\* every two consecutive words of the text are one white-space character
\* apart
SingleSpaced(txt) == \A k \in 1..Len(txt) : txt[k].w = 1 \/ txt[k].gap = 1

\* C15 as stated: for every input longer than 200 characters for which no
\* heading pattern yields a chunk, the fallback produces at least one chunk.
C15_FallbackYieldsChunk ==
    (SegReturned /\ TextLen(seg_text) > 200 /\ NoHeadingChunk) =>
        Len(seg_chunks) >= 1

\* C15, amended: for every input longer than 200 characters whose words are
\* separated by single white-space characters and for which no heading
\* pattern yields a chunk, the fallback produces at least one chunk.
C15_FallbackYieldsChunkSingleSpaced ==
    (SegReturned /\ TextLen(seg_text) > 200 /\ NoHeadingChunk
                 /\ SingleSpaced(seg_text)) =>
        /\ Len(seg_chunks) >= 1
        /\ \A k \in 1..Len(seg_chunks) :
              seg_chunks[k].text.content.unit = "words"

C15_Witness ==
    /\ SegReturned
    /\ TextLen(seg_text) > 200
    /\ NoHeadingChunk
    /\ SingleSpaced(seg_text)
    /\ Len(seg_chunks) >= 1

\* C16: chunk_by_headers on the empty text returns the empty list, and so
\* it does on every text of at most 200 characters for which no heading
\* pattern yields a chunk.
C16_ShortTextNoChunk ==
    (SegReturned /\ TextLen(seg_text) <= 200 /\ NoHeadingChunk) =>
        seg_chunks = <<>>

\* the empty text has been segmented
C16_Witness ==
    /\ SegReturned
    /\ Len(seg_text) = 0
    /\ seg_chunks = <<>>

\* C18: after a successful build over the persisted chunk stream all ids
\* of the Index are pairwise distinct.
C18_IndexIdsDistinct ==
    idx_pc = "done" =>
        \A a, b \in 1..Len(embeddings_data.ids) :
            a < b => embeddings_data.ids[a] # embeddings_data.ids[b]

(***************************************************************************)
(*                      missing input (all stages)                         *)
(***************************************************************************)

\* C21: when the input of a stage is missing (the chunk file of the
\* indexer, the guideline-chunk file of the detection run, the source
\* directory of the ingester) the stage stops at its first test and no step
\* of it changes its output files: what an earlier run persisted stays as
\* it is and nothing partial is written.
C21_MissingInputWritesNothing ==
    /\ [](/\ (idx_pc # "idle" /\ ~chunks_file.exists) => idx_pc \in {"start", "exit1"}
          /\ (det_pc # "idle" /\ ~guideline_file.exists) => det_pc \in {"start", "returned"}
          /\ (ing_pc # "idle" /\ ~data_dir.exists) => ing_pc \in {"start", "returned"})
    /\ [][/\ ~chunks_file.exists => files' = files
          /\ ~guideline_file.exists => report' = report
          /\ ~data_dir.exists => output_chunks' = output_chunks]_vars

\* the indexer has stopped on a missing chunk file and the index of an
\* earlier run is still on disk
C21_Witness ==
    /\ idx_pc = "exit1"
    /\ files.embeddings.exists
    /\ files.mapping.exists
    /\ files.metadata.exists

(***************************************************************************)
(*             pattern priority, Introduction, sequence numbers            *)
(***************************************************************************)

\* what pattern p alone yields for seg_text
Yield(p) == PatternChunks(p, seg_text, seg_source, <<>>)

\* C22: the six heading patterns are tried in list order and the loop stops
\* at the first pattern that yields a chunk: a pattern is tried only while
\* no chunk exists, after a success no further pattern is tried, all chunks
\* of a result come from that one pattern, and the windowing fallback yields
\* chunks only when all six patterns yield none.
C22_FirstYieldingPatternWins ==
    /\ [](ing_pc = "patterns" =>
             /\ seg_chunks = <<>>
             /\ \A q \in patterns : q < seg_pattern => Yield(q) = <<>>)
    /\ [](SegReturned =>
             IF \E q \in patterns : Yield(q) # <<>>
             THEN /\ seg_chunks = Yield(seg_pattern)
                  /\ seg_chunks # <<>>
                  /\ \A q \in patterns : q < seg_pattern => Yield(q) = <<>>
             ELSE \A k \in 1..Len(seg_chunks) :
                     seg_chunks[k].text.content.unit = "words")
    /\ [][ing_pc = "patterns" =>
             \/ /\ seg_chunks' = <<>>
                /\ seg_pattern' = seg_pattern + 1
                /\ ing_pc' = "patterns"
             \/ /\ seg_pattern' = seg_pattern
                /\ ing_pc' = "fallback"
                /\ seg_chunks' # <<>> \/ seg_pattern + 1 \notin patterns]_vars

\* the ALL CAPS pattern (the fourth) succeeded after three patterns that
\* yield nothing, and a later pattern would have yielded chunks too
C22_Witness ==
    /\ SegReturned
    /\ seg_pattern = 4
    /\ seg_chunks # <<>>
    /\ \E q \in patterns : q > seg_pattern /\ Yield(q) # <<>>

\* the text before the first match of pattern p: splits[0] of line 63
Preamble(p) ==
    LET splits == re_split(p, seg_text)
    IN [matched |-> Len(splits) > 1,
        first |-> splits[1].first,
        last |-> splits[1].last,
        len |-> SpanLen(seg_text, splits[1].first, splits[1].last)]

\* C23: when the pattern in use matches and the text before its first match
\* is longer than 50 characters, a chunk with topic "Introduction" holds
\* that text.
C23_PreambleIsIntroduction ==
    (/\ SegReturned
     /\ seg_chunks # <<>>
     /\ seg_chunks[1].text.content.unit = "blocks"
     /\ Preamble(seg_pattern).len > MIN_FRAGMENT) =>
        \E k \in 1..Len(seg_chunks) :
            /\ seg_chunks[k].metadata.topic = TopicIntroduction
            /\ seg_chunks[k].text.content.first = Preamble(seg_pattern).first
            /\ seg_chunks[k].text.content.last = Preamble(seg_pattern).last

\* the sequence number at the end of a chunk id: the digits after the
\* last underscore
RECURSIVE SeqNoFrom(_, _, _)
SeqNoFrom(id, k, acc) ==
    LET digits == <<"0","1","2","3","4","5","6","7","8","9">>
    IN  IF k > Len(id) THEN acc
        ELSE IF id[k] = "_" THEN SeqNoFrom(id, k + 1, 0)
        ELSE IF \E d \in 1..10 : digits[d] = id[k]
             THEN SeqNoFrom(id, k + 1,
                      10 * acc + (CHOOSE d \in 1..10 : digits[d] = id[k]) - 1)
             ELSE SeqNoFrom(id, k + 1, acc)

SeqNo(id) == SeqNoFrom(id, 1, 0)

\* the id without its sequence number
RECURSIVE IdStem(_)
IdStem(id) ==
    IF id = <<>> \/ id[Len(id)] = "_" THEN id
    ELSE IdStem(SubSeq(id, 1, Len(id) - 1))

\* C24: within one segment call the n-th emitted chunk carries sequence
\* number n-1 after a stem that depends on the source name only, so the ids
\* of one call are pairwise distinct, on the heading path and on the
\* fallback path.
C24_SequenceNumbers ==
    ing_pc \in {"patterns", "fallback", "scan", "done"} =>
        /\ \A k \in 1..Len(seg_chunks) :
              /\ SeqNo(seg_chunks[k].id) = k - 1
              /\ IdStem(seg_chunks[k].id) = IdStem(chunk_id(seg_source, 0))
        /\ \A a, b \in 1..Len(seg_chunks) :
              a # b => seg_chunks[a].id # seg_chunks[b].id

\* two windows were emitted by the fallback
C24_Witness ==
    /\ SegReturned
    /\ Len(seg_chunks) >= 2
    /\ \A k \in 1..Len(seg_chunks) : seg_chunks[k].text.content.unit = "words"

\* two fragments were emitted under headings
C24_WitnessHeadings ==
    /\ SegReturned
    /\ Len(seg_chunks) >= 2
    /\ \A k \in 1..Len(seg_chunks) : seg_chunks[k].text.content.unit = "blocks"

(***************************************************************************)
(*               the path of one chunk (diff_analysis.py)                  *)
(***************************************************************************)

\* C25: when the embedding of a guideline chunk fails, the zero vector is
\* the query, the oracle is not called for the chunk, no trend is recorded
\* for it, and the run does not die on it but goes on to the next chunk.
C25_EmbedFailureSkips ==
    /\ [](embed_failed =>
             /\ query_vec = ZERO_VECTOR
             /\ oracle_requests = 0
             /\ det_pc \notin {"classify", "crashed"}
             /\ det_pc = "record" => ~HasShift(result))
    /\ [][embed_failed' => trends' = trends]_vars

\* load_vector_db finds no baseline Index: a file of it is missing
BaselineUnavailable ==
    ~baseline.embeddings.exists \/ ~baseline.mapping.exists

\* C26: when the baseline Index is unavailable every guideline chunk goes
\* from its retrieval step directly to being skipped, without an embedding
\* call and without an oracle call, and the run ends with a report whose
\* trend list is empty.
C26_UnavailableBaselineSkipsAll ==
    /\ [](BaselineUnavailable =>
             /\ embed_requests = 0
             /\ oracle_requests = 0
             /\ det_pc \notin {"classify", "crashed"}
             /\ trends = <<>>
             /\ det_pc = "record" => ~HasShift(result)
             /\ det_pc = "done" =>
                   /\ report.exists
                   /\ report.content.trends = <<>>)
    /\ [][(BaselineUnavailable /\ det_pc = "find") => det_pc' = "record"]_vars
    /\ (BaselineUnavailable /\ guideline_file.exists) ~> (det_pc = "done")

\* a run over two guideline chunks without a baseline has written its report
C26_Witness ==
    /\ BaselineUnavailable
    /\ det_pc = "done"
    /\ Len(g_chunks) = 2
    /\ report.exists
    /\ report.content.trends = <<>>

\* C27: a guideline chunk for which the search returned at least one
\* baseline match is classified: the oracle is called exactly once for it,
\* whatever the retrieved texts say.
C27_RetrievedIsClassified ==
    Len(top_matches) > 0 =>
        \/ det_pc = "classify" /\ oracle_requests = 0
        \/ det_pc # "classify" /\ oracle_requests = 1

\* the verdict of the chunk at hand reports a shift
VerdictHasShift == result.t = "dict" /\ HasShift(result)

\* C28: the trend list holds exactly one record for each guideline chunk
\* whose verdict has has_shift true and none for any other chunk, in the
\* order of the chunks; a step only appends to the list and leaves the
\* records that are in it as they are.
C28_OneRecordPerShift ==
    /\ [][IF det_pc = "record" /\ VerdictHasShift
          THEN /\ Len(trends') = Len(trends) + 1
               /\ SubSeq(trends', 1, Len(trends)) = trends
               /\ origin'[Len(trends')].chunk = ci
          ELSE trends' = trends]_vars
    /\ [](/\ Len(origin) = Len(trends)
          /\ \A a, b \in 1..Len(origin) :
                a < b => origin[a].chunk < origin[b].chunk)

(***************************************************************************)
(*                 categories and the report (diff_analysis.py)            *)
(***************************************************************************)

\* the keyword sets in the order of the claim
CategoryOrder ==
    << [category |-> cat_TB, keywords |-> TB_KEYWORDS],
       [category |-> cat_Asthma, keywords |-> ASTHMA_KEYWORDS],
       [category |-> cat_ARDS, keywords |-> ARDS_KEYWORDS],
       [category |-> cat_COPD, keywords |-> COPD_KEYWORDS],
       [category |-> cat_Pneumonia, keywords |-> PNEUMONIA_KEYWORDS] >>

\* the sets that have a keyword in the lower-cased topic and new concept of
\* a trend
MatchingSets(trend) ==
    UNION { { s \in DOMAIN CategoryOrder :
                \E k \in DOMAIN CategoryOrder[s].keywords :
                    Contains(combined, CategoryOrder[s].keywords[k]) } :
            combined \in { Lower(trend.o["topic"].s \o <<" ">>
                                 \o trend.o["new_concept"].s) } }

\* C29: the category of every recorded trend is that of the earliest set, in
\* the order TB, Asthma, ARDS, COPD, Pneumonia, with a keyword occurring in
\* the lower-cased topic plus new concept, and "Other" when no set has one
\* (checked in the states that follow the recording of a trend: the list
\* changes at no other step).
C29_EarliestCategoryWins ==
    det_pc \in {"find", "report"} =>
    \A t \in 1..Len(trends) :
        LET sets == MatchingSets(trends[t])
        IN  trends[t].o["category"].s =
               IF sets = {} THEN cat_Other
               ELSE CategoryOrder[CHOOSE s \in sets : \A u \in sets : s <= u].category

\* a recorded trend matches the Asthma set and the COPD set and is Asthma
C29_Witness ==
    \E t \in 1..Len(trends) :
        /\ {2, 4} \subseteq MatchingSets(trends[t])
        /\ trends[t].o["category"].s = cat_Asthma

\* a recorded trend matches no set and is Other
C29_WitnessOther ==
    \E t \in 1..Len(trends) :
        /\ MatchingSets(trends[t]) = {}
        /\ trends[t].o["category"].s = cat_Other

\* the source documents of the recorded trends
TrendSources ==
    { g_chunks[origin[t].chunk].metadata.source : t \in 1..Len(origin) }

\* C30: in the report a run writes, total_trends is the length of the
\* trends array and the source list holds exactly the source documents of
\* the recorded trends, each of them once.
C30_ReportMetadataConsistent ==
    (report.exists /\ guideline_file.exists) =>
        LET listed == report.content.metadata.sources_analyzed
        IN  /\ report.content.metadata.total_trends = Len(report.content.trends)
            /\ { listed[k] : k \in 1..Len(listed) } = TrendSources
            /\ { report.content.trends[t].o["source_guideline"].s :
                   t \in 1..Len(report.content.trends) } = TrendSources
            /\ \A a, b \in 1..Len(listed) : a # b => listed[a] # listed[b]

\* a report with two trends of one source document
C30_Witness ==
    /\ det_pc = "done"
    /\ report.content.metadata.total_trends = 2
    /\ report.content.metadata.sources_analyzed = <<src_gold>>

\* a report whose one trend comes from the second of two source documents
C30_WitnessAbsent ==
    /\ det_pc = "done"
    /\ report.content.metadata.total_trends = 1
    /\ report.content.metadata.sources_analyzed = <<src_gina>>
    /\ g_chunks[1].metadata.source = src_gold

(***************************************************************************)
(*                 the fields of a TrendRecord (diff_analysis.py)          *)
(***************************************************************************)

\* C31: every trend of the report has an exam_relevance_score that is an
\* integer in 1..10, whatever verdict the oracle returned.
C31_ScoreInRange ==
    (report.exists /\ guideline_file.exists) =>
        \A t \in 1..Len(report.content.trends) :
            LET score == Get(report.content.trends[t], "exam_relevance_score", JNull)
            IN  /\ score.t = "int"
                /\ score.n \in 1..10

(***************************************************************************)
(*            batches one after another (batch_indexer.py)                 *)
(***************************************************************************)

\* C32: batches are processed strictly one after another.  Every external
\* request belongs to the one call in progress, which is the call of the
\* batch at offset i, and all batches before it are finished; the call of a
\* batch begins only when the call before it has returned (its vectors are
\* stored) or has raised after its third request, every backoff wait done.
C32_BatchesStrictlySequential ==
    /\ [](idx_pc = "call" =>
             /\ call_result = "running"
             /\ Len(batch_result) * BATCH_SIZE = i)
    /\ []((/\ idx_pc \in {"loop", "done"}
            /\ batch_result # <<>>
            /\ batch_result[Len(batch_result)] = "failed") =>
               /\ call_result = "raised"
               /\ requests = retries)
    /\ [][(idx_pc = "call" /\ idx_pc' # "call"
             /\ batch_result'[Len(batch_result')] = "ok") =>
               /\ call_result' = "returned"
               /\ Len(embeddings_data'.ids) = Len(embeddings_data.ids) + Len(Batch)
               /\ embeddings_data'.ids[Len(embeddings_data'.ids)]
                     = Batch[Len(Batch)].id]_vars
    /\ [][(idx_pc # "call" /\ idx_pc' = "call") =>
             /\ requests' = 0
             /\ i > 0 => call_result \in {"returned", "raised"}]_vars
    /\ [][requests' # requests =>
             \/ idx_pc # "call" /\ idx_pc' = "call"
             \/ idx_pc = "call" /\ requests' = requests + 1]_vars

\* the call of the second batch is in progress after the first batch failed
C32_Witness ==
    /\ idx_pc = "call"
    /\ i = BATCH_SIZE
    /\ batch_result = <<"failed">>
    /\ requests >= 1

\* the number of batches that are followed by another batch
BatchesWithSuccessor == IF NumBatches = 0 THEN 0 ELSE NumBatches - 1

\* C33: main sleeps RATE_LIMIT_DELAY exactly once between two consecutive
\* batches and not after the final batch: once b batches are finished it
\* has slept after each of them except the last batch of the run, and when
\* the call of a batch begins there is exactly one sleep for each batch
\* before it.
C33_OneDelayBetweenBatches ==
    /\ [](idx_pc \in {"loop", "call", "done"} =>
             sleeps = [k \in 1..Min(Len(batch_result), BatchesWithSuccessor) |->
                          (k - 1) * BATCH_SIZE])
    /\ [](idx_pc = "done" =>
             /\ Len(batch_result) = NumBatches
             /\ Len(sleeps) = BatchesWithSuccessor)
    /\ [][(idx_pc # "call" /\ idx_pc' = "call") =>
             Len(sleeps) * BATCH_SIZE = i]_vars

\* a run of three batches has ended: it slept after the first and after the
\* second batch and not after the third
C33_Witness ==
    /\ idx_pc = "done"
    /\ Len(batch_result) = 3
    /\ sleeps = <<0, BATCH_SIZE>>

(***************************************************************************)
(*              the baseline Index of a run (diff_analysis.py)             *)
(***************************************************************************)

\* C34: during a detection run the baseline Index is loaded at most once,
\* not before the first chunk asks for it, and the loaded Index is what
\* every later chunk searches: once loaded, no step changes its ids, its
\* vectors or its id-to-text map, and no step changes the files it was
\* loaded from.
C34_BaselineLoadedOnce ==
    /\ [](/\ db_loads <= 1
          /\ VECTOR_DB.loaded <=> db_loads = 1
          /\ det_pc = "start" => ~VECTOR_DB.loaded
          /\ VECTOR_DB.loaded => VECTOR_DB = load_vector_db)
    /\ [][/\ VECTOR_DB.loaded => VECTOR_DB' = VECTOR_DB
          /\ VECTOR_DB' # VECTOR_DB => det_pc = "find" /\ ci = 1
          /\ baseline' = baseline]_vars

\* the second chunk of a run was searched in the Index the first chunk loaded
C34_Witness ==
    /\ ci = 2
    /\ det_pc \in {"classify", "record"}
    /\ db_loads = 1
    /\ embed_requests = 1
    /\ Len(top_matches) > 0

(***************************************************************************)
(*                 the prompt of the oracle (diff_analysis.py)             *)
(***************************************************************************)

\* C35: the prompt of every oracle request holds at most 4000 characters of
\* the guideline chunk's text and at most 4000 characters of the textbook
\* context, each the leading part of its text, however long the texts are.
C35_PromptWithinBudget ==
    /\ Len(prompt.guideline_text) <= 4000
    /\ Len(prompt.textbook_text) <= 4000
    /\ (det_pc = "record" /\ oracle_requests = 1) =>
          /\ \A k \in 1..Len(prompt.guideline_text) :
                prompt.guideline_text[k] = g_chunks[ci].text[k]
          /\ \A k \in 1..Len(prompt.textbook_text) :
                prompt.textbook_text[k] = textbook_context[k]
          /\ Len(prompt.guideline_text) \in {4000, Len(g_chunks[ci].text)}
          /\ Len(prompt.textbook_text) \in {4000, Len(textbook_context)}

\* a request whose two texts were both longer than 4000 characters
C35_Witness ==
    /\ det_pc = "record"
    /\ oracle_requests = 1
    /\ Len(g_chunks[ci].text) > 4000
    /\ Len(textbook_context) > 4000
    /\ Len(prompt.guideline_text) = 4000
    /\ Len(prompt.textbook_text) = 4000

\* C36: for any interleaving of rate-limit and other failures of the
\* external call, one call of generate_batch_embeddings issues at most 3
\* external requests and then ends: while it runs a further request is
\* possible and every step of it is one more request, and it ends either
\* returning one vector per text of a successful request or raising an
\* error; it never returns without vectors.
C36_AtMostThreeRequestsThenEnds ==
    /\ [](requests <= retries)
    /\ [](idx_pc = "call" =>
             /\ call_result = "running"
             /\ requests = attempt
             /\ requests < retries
             /\ ENABLED (AttemptOk \/ AttemptRateLimited \/ AttemptOtherError))
    /\ [][idx_pc = "call" =>
             /\ requests' = requests + 1
             /\ idx_pc' # "call" => call_result' \in {"returned", "raised"}
             /\ call_result' = "returned" =>
                   /\ Outcome = SUCCESS
                   /\ Len(Batch) > 0
                   /\ Len(embeddings_data'.embeddings) =
                          Len(embeddings_data.embeddings) + Len(Batch)
                   /\ \A j \in 1..Len(Batch) :
                          embeddings_data'.embeddings[Len(embeddings_data.embeddings) + j].of
                              = Batch[j].text
             /\ call_result' = "raised" =>
                   /\ raised_error' \in {"external", "Failed after retries"}
                   /\ embeddings_data' = embeddings_data]_vars

C36_Witness ==
    /\ CallFinished
    /\ requests = retries
    /\ Len(plan) >= 2
    /\ plan[1] = RATE_LIMITED
    /\ plan[2] = OTHER_ERROR

\* C37: in the persisted index every mapping entry's embeddingIndex is the
\* position (0-based) of that chunk's id in the id list and of its vector in
\* the vector list, also when the embedding of an earlier batch failed; the
\* mapping has exactly one entry per id of the id list, and totalChunks of the
\* index metadata is that count.
C37_EmbeddingIndexIsPosition ==
    idx_pc = "done" =>
        LET ed == files.embeddings.content
            mp == files.mapping.content
        IN  /\ Len(mp) = Len(ed.ids)
            /\ files.metadata.content.totalChunks = Len(ed.ids)
            /\ \A k \in 1..Len(mp) :
                 /\ mp[k].id = ed.ids[k]
                 /\ mp[k].embeddingIndex + 1 \in 1..Len(ed.ids)
                 /\ ed.ids[mp[k].embeddingIndex + 1] = mp[k].id
                 /\ ed.embeddings[mp[k].embeddingIndex + 1].of = mp[k].text

\* C38: every trend's source_guideline is the source of the guideline chunk
\* that produced it and its category is the value detect_category computed
\* from the verdict's topic and new concept, even when the verdict itself has
\* keys named source_guideline or category; the report holds the trends as
\* they were recorded.
C38_SourceAndCategoryOverride ==
    /\ [][(det_pc = "record" /\ Len(trends') = Len(trends) + 1) =>
             LET trend == trends'[Len(trends')]
             IN  /\ trend.o["source_guideline"] = JStr(g_chunks[ci].metadata.source)
                 /\ trend.o["category"] =
                        JStr(detect_category(result.o["topic"].s,
                                             result.o["new_concept"].s))]_vars
    /\ [](\A t \in 1..Len(trends) :
             trends[t].o["source_guideline"] =
                 JStr(g_chunks[origin[t].chunk].metadata.source))
    /\ []((det_pc = "done" /\ guideline_file.exists) =>
             report.content.trends = trends)

\* the report has a trend whose verdict named oracle.pdf and TB itself
C38_Witness ==
    /\ det_pc = "done"
    /\ \E t \in 1..Len(report.content.trends) :
          /\ origin[t].response = Text(Plain(ShiftUnasked))
          /\ report.content.trends[t].o["source_guideline"].s
                 = g_chunks[origin[t].chunk].metadata.source
          /\ report.content.trends[t].o["category"].s = cat_COPD

(***************************************************************************)
(*            the generation loop (batch_mcq_generator.py)                 *)
(***************************************************************************)

\* C39: generate_mcqs_for_topic terminates for every target count and every
\* sequence of outcomes of the generation call (an array of any number of
\* items, an empty response, an unparsable response, a call error): the
\* loop on the remaining count makes only finitely many calls, so the
\* function returns.
C39_GenerationTerminates == <>(mcq_pc = "returned")

=============================================================================
